---- MODULE Spec2Model ----
(***************************************************************************)
(* The Remitwise contracts: remittance_split, savings_goals, bill_payments *)
(* and insurance.  Each contract is a separate instance with its own       *)
(* instance storage; every public function runs to completion as one       *)
(* invocation, and the host discards every write of an invocation that     *)
(* panics.                                                                 *)
(*                                                                         *)
(* A handler is an operator from the storage at entry and the call's       *)
(* arguments to an outcome [st, res, panicked, ...]: st is the storage as  *)
(* the handler has written it when it returns or panics, res the returned  *)
(* value ("ok" for true or a value, "false") or the panic message.  The    *)
(* action of the handler commits st unless the handler panicked.           *)
(***************************************************************************)
EXTENDS Integers, Sequences, FiniteSets, TLC

\* ------------------------------------------------------------- bounds
\* Audited calls of one behaviour of Spec (the length the audit log reaches).
MaxLog == 2
\* Ledger timestamps run over 0..MaxTime.
MaxTime == 1
\* Records one behaviour creates in bill_payments and insurance.
MaxId == 2
\* Audited calls of one behaviour of SpecAudit beyond MAX_AUDIT_ENTRIES.
MaxExtra == 3
\* Total amounts of SpecCalc run over 1..MaxTotal (and 999, 2000).
MaxTotal == 12
\* Audited calls of one behaviour of SpecGoalOps.
MaxOps == 4

\* ---------------------------------------------------- program constants
SNAPSHOT_VERSION == 1
MAX_AUDIT_ENTRIES == 100
\* u64 arithmetic wraps modulo 2^64.  TLC's integers are 32 bits wide, so the
\* modulus is scaled to 2^24; every sum and product the model forms stays below
\* it, where wrapping and exact arithmetic agree, as they do in the code.
U64_MODULUS == 2^24

\* ------------------------------------------------------------ the inputs
Principals == {"alice", "bob"}
\* AccountGroup of distribute_usdc: the four recipient accounts.
Recipients == <<"spending_acct", "savings_acct", "bills_acct", "insurance_acct">>
Accounts == Principals \cup {Recipients[i] : i \in 1..4}
\* Percentage tuples callers pass: two that sum to 100 and one that does not.
PercentTuples == {<<50, 30, 15, 5>>, <<40, 30, 20, 10>>, <<50, 50, 50, 50>>}
\* total_amount arguments of distribute_usdc.
TotalAmounts == {0, 999}
\* The payer balances the token ledger starts with.
InitialBalance == [a \in Accounts |-> IF a = "alice" THEN 1500 ELSE 0]

\* --------------------------------------------------------- Option and Map
None == <<>>
Some(x) == <<x>>
IsSome(o) == o # <<>>
Unwrap(o) == o[1]

EmptyMap == <<>>
MapHas(m, k) == k \in DOMAIN m
MapSet(m, k, v) == [x \in (DOMAIN m) \cup {k} |-> IF x = k THEN v ELSE m[x]]

\* An outcome: ret is the value returned (<<>> of a call that panicked).
Returns(st, res, ret) == [st |-> st, res |-> res, panicked |-> FALSE, ret |-> ret]
Return(st, res) == Returns(st, res, res = "ok")
Panic(st, msg) == [st |-> st, res |-> msg, panicked |-> TRUE, ret |-> <<>>]

\* The host keeps the writes of an invocation that returns and discards the
\* writes of one that panics.
HostCommit(entry, out) == IF out.panicked THEN entry ELSE out.st

VARIABLES
    contract,      \* the contract instance this behaviour exercises
    now,           \* env.ledger().timestamp()
    split_store,   \* remittance_split: CONFIG, SPLIT, NONCES, AUDIT
    token,         \* the USDC token ledger: balance per account
    goals_store,   \* savings_goals: GOALS, NEXT_ID, NONCES, AUDIT
    bills_store,   \* bill_payments: BILLS, NEXT_ID
    policy_store,  \* insurance: POLICIES, NEXT_ID
    snap,          \* the snapshot the client holds from its last export
    last,          \* the most recent call: operation, caller, arguments, outcome
    snap_state,    \* history: the managed state when snap was exported
    used,          \* history: the <<principal, nonce>> of every committed nonce-bearing call
    created,       \* history: the ids handed out by creations, in order
    audit_hist     \* history: every audit entry of a call that returned, in order

vars == <<contract, now, split_store, token, goals_store, bills_store,
          policy_store, snap, last, snap_state, used, created, audit_hist>>

\* ================================================================= shared
\* remittance_split and savings_goals carry the same text for get_nonce,
\* require_nonce, increment_nonce, append_audit and get_audit_log.

\* A get_nonce over one counter for the contract: the highest nonce stored,
\* whoever asks.
get_nonce_of_contract(st, address) ==
    LET held == {st.NONCES[a] : a \in DOMAIN st.NONCES}
    IN  IF held = {} THEN 0 ELSE CHOOSE n \in held : \A m \in held : m <= n

get_nonce(st, address) ==
    IF MapHas(st.NONCES, address) THEN st.NONCES[address] ELSE 0

\* A nonce check that also lets through the nonces already consumed.
require_nonce_at_most(st, address, expected) == expected <= get_nonce(st, address)

require_nonce(st, address, expected) == expected = get_nonce(st, address)

\* An addition of u64 that wraps where the sum does not fit.
checked_add_u64_wrapping(a, b) ==
    Some(IF a > (U64_MODULUS - 1) - b THEN a - ((U64_MODULUS - 1) - b) - 1 ELSE a + b)

\* checked_add of u64: None where the sum does not fit.  u64 is modelled at the
\* width of U64_MODULUS.
checked_add_u64(a, b) == IF a > (U64_MODULUS - 1) - b THEN None ELSE Some(a + b)

\* A nonce table that skips a value at every increment.
increment_nonce_twice(st, address) ==
    LET next == checked_add_u64(get_nonce(st, address), 2)
    IN  IF ~IsSome(next) THEN None
        ELSE Some([st EXCEPT !.NONCES = MapSet(st.NONCES, address, Unwrap(next))])

\* increment_nonce: the storage with the counter advanced, None where
\* expect("nonce overflow") panics.
increment_nonce(st, address) ==
    LET next == checked_add_u64(get_nonce(st, address), 1)
    IN  IF ~IsSome(next) THEN None
        ELSE Some([st EXCEPT !.NONCES = MapSet(st.NONCES, address, Unwrap(next))])

AuditEntry(operation, caller, timestamp, success) ==
    [operation |-> operation, caller |-> caller,
     timestamp |-> timestamp, success |-> success]

\* A log that evicts only once it holds more than MAX_AUDIT_ENTRIES entries.
append_audit_log_late(log, entry) ==
    LET kept == IF Len(log) > MAX_AUDIT_ENTRIES
                THEN SubSeq(log, 2, Len(log))
                ELSE log
    IN  Append(kept, entry)

append_audit_log(log, entry) ==
    LET kept == IF Len(log) >= MAX_AUDIT_ENTRIES
                THEN SubSeq(log, 2, Len(log))
                ELSE log
    IN  Append(kept, entry)

append_audit(st, operation, caller, timestamp, success) ==
    [st EXCEPT !.AUDIT =
        append_audit_log(st.AUDIT, AuditEntry(operation, caller, timestamp, success))]

Min(a, b) == IF a <= b THEN a ELSE b

get_audit_log(st, from_index, limit) ==
    LET log == st.AUDIT
        len == Len(log)
        cap == Min(MAX_AUDIT_ENTRIES, limit)
        end == Min(from_index + cap, len)
    IN  IF from_index >= len THEN <<>>
        ELSE SubSeq(log, from_index + 1, end)

\* u32 is modelled at 31 bits, the widest unsigned range TLC's integers hold.
U32_MAX == 2147483647

\* a + b on u32: None where the sum does not fit.
u32_add(a, b) == IF a > U32_MAX - b THEN None ELSE Some(a + b)

\* The two outcomes a build can give an addition that does not fit: a panic
\* under overflow checks, the wrapped sum without them.
Overflowed(st, log, from_index, a, b) ==
    {Panic(st, "attempt to add with overflow"),
     Returns(st, "ok", SubSeq(log, from_index + 1,
                              Min(a - (U32_MAX - b) - 1, Len(log))))}

\* get_audit_log that adds from_index and cap before it compares from_index
\* with the length.
get_audit_log_outcomes_add_first(st, from_index, limit) ==
    LET log == st.AUDIT
        len == Len(log)
        cap == Min(MAX_AUDIT_ENTRIES, limit)
        sum == u32_add(from_index, cap)
    IN  IF ~IsSome(sum) THEN Overflowed(st, log, from_index, from_index, cap)
        ELSE IF from_index >= len THEN {Returns(st, "ok", <<>>)}
        ELSE {Returns(st, "ok", SubSeq(log, from_index + 1, Min(Unwrap(sum), len)))}

\* The outcomes of a get_audit_log invocation, the addition of line 442 being
\* a u32 addition.
get_audit_log_outcomes(st, from_index, limit) ==
    LET log == st.AUDIT
        len == Len(log)
        cap == Min(MAX_AUDIT_ENTRIES, limit)
    IN  IF from_index >= len THEN {Returns(st, "ok", <<>>)}
        ELSE LET sum == u32_add(from_index, cap)
             IN  IF ~IsSome(sum)
                 THEN Overflowed(st, log, from_index, from_index, cap)
                 ELSE {Returns(st, "ok",
                               SubSeq(log, from_index + 1, Min(Unwrap(sum), len)))}

wrapping_add(a, b) == (a + b) % U64_MODULUS
wrapping_mul(a, b) == (a * b) % U64_MODULUS
\* `x as u64`: the low 64 bits of x.
AsU64(x) == x % U64_MODULUS

\* ======================================================= remittance_split
SplitConfig(owner, t, initialized) ==
    [owner |-> owner, spending_percent |-> t[1], savings_percent |-> t[2],
     bills_percent |-> t[3], insurance_percent |-> t[4],
     initialized |-> initialized]

Percents(config) ==
    <<config.spending_percent, config.savings_percent,
      config.bills_percent, config.insurance_percent>>

PercentTotal(t) == t[1] + t[2] + t[3] + t[4]

\* a + b on u32 as a build computes it: with overflow checks None where the
\* sum does not fit (the addition panics), without them the sum modulo 2^w.
u32_plus(overflow_checks, a, b) ==
    IF a <= U32_MAX - b THEN Some(a + b)
    ELSE IF overflow_checks THEN None
    ELSE Some(a - (U32_MAX - b) - 1)

\* `spending_percent + savings_percent + bills_percent + insurance_percent`,
\* added from the left.
PercentSum(overflow_checks, t) ==
    LET s2 == u32_plus(overflow_checks, t[1], t[2])
        s3 == IF IsSome(s2) THEN u32_plus(overflow_checks, Unwrap(s2), t[3]) ELSE None
    IN  IF IsSome(s3) THEN u32_plus(overflow_checks, Unwrap(s3), t[4]) ELSE None

SplitInit == [CONFIG |-> None, SPLIT |-> None, NONCES |-> EmptyMap, AUDIT |-> <<>>]

\* An initialize_split that does not look for a stored configuration.
initialize_split_overwriting(overflow_checks, st, ts, auth, owner, nonce, t) ==
    IF ~auth THEN Panic(st, "Unauthorized")
    ELSE IF ~require_nonce(st, owner, nonce) THEN Panic(st, "Invalid nonce")
    ELSE IF ~IsSome(PercentSum(overflow_checks, t))
         THEN Panic(st, "attempt to add with overflow")
    ELSE IF Unwrap(PercentSum(overflow_checks, t)) # 100
         THEN Panic(append_audit(st, "init", owner, ts, FALSE),
                    "Percentages must sum to 100")
    ELSE LET st1 == [st EXCEPT !.CONFIG = Some(SplitConfig(owner, t, TRUE)),
                               !.SPLIT = Some(t)]
             st2 == increment_nonce(st1, owner)
         IN  IF ~IsSome(st2) THEN Panic(st1, "nonce overflow")
             ELSE Return(append_audit(Unwrap(st2), "init", owner, ts, TRUE), "ok")

initialize_split_built(overflow_checks, st, ts, auth, owner, nonce, t) ==
    IF ~auth THEN Panic(st, "Unauthorized")
    ELSE IF ~require_nonce(st, owner, nonce) THEN Panic(st, "Invalid nonce")
    ELSE IF IsSome(st.CONFIG)
         THEN Panic(append_audit(st, "init", owner, ts, FALSE),
                    "Split already initialized")
    ELSE IF ~IsSome(PercentSum(overflow_checks, t))
         THEN Panic(st, "attempt to add with overflow")
    ELSE IF Unwrap(PercentSum(overflow_checks, t)) # 100
         THEN Panic(append_audit(st, "init", owner, ts, FALSE),
                    "Percentages must sum to 100")
    ELSE LET st1 == [st EXCEPT !.CONFIG = Some(SplitConfig(owner, t, TRUE)),
                               !.SPLIT = Some(t)]
             st2 == increment_nonce(st1, owner)
         IN  IF ~IsSome(st2) THEN Panic(st1, "nonce overflow")
             ELSE Return(append_audit(Unwrap(st2), "init", owner, ts, TRUE), "ok")

\* initialize_split on percentages whose sum fits u32, where every build
\* computes the same total.
initialize_split(st, ts, auth, owner, nonce, t) ==
    initialize_split_built(TRUE, st, ts, auth, owner, nonce, t)

\* An update_split that stores the configuration and leaves the SPLIT vector.
update_split_built_config_only(overflow_checks, st, ts, auth, caller, nonce, t) ==
    IF ~auth THEN Panic(st, "Unauthorized")
    ELSE IF ~require_nonce(st, caller, nonce) THEN Panic(st, "Invalid nonce")
    ELSE IF ~IsSome(st.CONFIG) THEN Panic(st, "Split not initialized")
    ELSE IF Unwrap(st.CONFIG).owner # caller
         THEN Panic(append_audit(st, "update", caller, ts, FALSE),
                    "Only the owner can update the split configuration")
    ELSE IF ~IsSome(PercentSum(overflow_checks, t))
         THEN Panic(st, "attempt to add with overflow")
    ELSE IF Unwrap(PercentSum(overflow_checks, t)) # 100
         THEN Panic(append_audit(st, "update", caller, ts, FALSE),
                    "Percentages must sum to 100")
    ELSE LET config == [Unwrap(st.CONFIG) EXCEPT
                            !.spending_percent = t[1], !.savings_percent = t[2],
                            !.bills_percent = t[3], !.insurance_percent = t[4]]
             st1 == [st EXCEPT !.CONFIG = Some(config)]
             st2 == increment_nonce(st1, caller)
         IN  IF ~IsSome(st2) THEN Panic(st1, "nonce overflow")
             ELSE Return(append_audit(Unwrap(st2), "update", caller, ts, TRUE), "ok")

update_split_built(overflow_checks, st, ts, auth, caller, nonce, t) ==
    IF ~auth THEN Panic(st, "Unauthorized")
    ELSE IF ~require_nonce(st, caller, nonce) THEN Panic(st, "Invalid nonce")
    ELSE IF ~IsSome(st.CONFIG) THEN Panic(st, "Split not initialized")
    ELSE IF Unwrap(st.CONFIG).owner # caller
         THEN Panic(append_audit(st, "update", caller, ts, FALSE),
                    "Only the owner can update the split configuration")
    ELSE IF ~IsSome(PercentSum(overflow_checks, t))
         THEN Panic(st, "attempt to add with overflow")
    ELSE IF Unwrap(PercentSum(overflow_checks, t)) # 100
         THEN Panic(append_audit(st, "update", caller, ts, FALSE),
                    "Percentages must sum to 100")
    ELSE LET config == [Unwrap(st.CONFIG) EXCEPT
                            !.spending_percent = t[1], !.savings_percent = t[2],
                            !.bills_percent = t[3], !.insurance_percent = t[4]]
             st1 == [st EXCEPT !.CONFIG = Some(config), !.SPLIT = Some(t)]
             st2 == increment_nonce(st1, caller)
         IN  IF ~IsSome(st2) THEN Panic(st1, "nonce overflow")
             ELSE Return(append_audit(Unwrap(st2), "update", caller, ts, TRUE), "ok")

\* update_split that checks the nonce and leaves the counter where it is.
update_split_keeps_nonce(st, ts, auth, caller, nonce, t) ==
    IF ~auth THEN Panic(st, "Unauthorized")
    ELSE IF ~require_nonce(st, caller, nonce) THEN Panic(st, "Invalid nonce")
    ELSE IF ~IsSome(st.CONFIG) THEN Panic(st, "Split not initialized")
    ELSE IF Unwrap(st.CONFIG).owner # caller
         THEN Panic(append_audit(st, "update", caller, ts, FALSE),
                    "Only the owner can update the split configuration")
    ELSE IF PercentTotal(t) # 100
         THEN Panic(append_audit(st, "update", caller, ts, FALSE),
                    "Percentages must sum to 100")
    ELSE LET config == [Unwrap(st.CONFIG) EXCEPT
                            !.spending_percent = t[1], !.savings_percent = t[2],
                            !.bills_percent = t[3], !.insurance_percent = t[4]]
             st1 == [st EXCEPT !.CONFIG = Some(config), !.SPLIT = Some(t)]
         IN  Return(append_audit(st1, "update", caller, ts, TRUE), "ok")

\* update_split on percentages whose sum fits u32, where every build
\* computes the same total.
update_split(st, ts, auth, caller, nonce, t) ==
    update_split_built(TRUE, st, ts, auth, caller, nonce, t)

get_split(st) == IF IsSome(st.SPLIT) THEN Unwrap(st.SPLIT) ELSE <<50, 30, 15, 5>>

get_config(st) == st.CONFIG

\* checked_mul, checked_div, checked_sub of i128: None on overflow.  i128 holds
\* every value TLC can represent, so within the model they never overflow.
checked_mul(a, b) == Some(a * b)
\* A division that rounds up instead of towards zero.
checked_div_rounding_up(a, b) == IF b = 0 THEN None ELSE Some((a + b - 1) \div b)

checked_div(a, b) == IF b = 0 THEN None ELSE Some(a \div b)
checked_sub(a, b) == Some(a - b)

\* A share rounded to the nearest unit instead of down.
Share_rounded(total_amount, percent) ==
    LET n == checked_mul(total_amount, percent)
    IN  IF IsSome(n) THEN checked_div(Unwrap(n) + 50, 100) ELSE None

Share(total_amount, percent) ==
    LET n == checked_mul(total_amount, percent)
    IN  IF IsSome(n) THEN checked_div(Unwrap(n), 100) ELSE None

\* A split that computes the insurance amount from its own percentage.
calculate_split_by_percent(split, total_amount) ==
    IF total_amount <= 0 THEN None
    ELSE LET spending == Share(total_amount, split[1])
             savings == Share(total_amount, split[2])
             bills == Share(total_amount, split[3])
             insurance == Share(total_amount, split[4])
         IN  Some(<<Unwrap(spending), Unwrap(savings), Unwrap(bills),
                    Unwrap(insurance)>>)

\* calculate_split on the split vector get_split returns: the four amounts, or
\* None where the code panics.
calculate_split(split, total_amount) ==
    IF total_amount <= 0 THEN None
    ELSE LET spending == Share(total_amount, split[1])
             savings == Share(total_amount, split[2])
             bills == Share(total_amount, split[3])
         IN  IF ~(IsSome(spending) /\ IsSome(savings) /\ IsSome(bills)) THEN None
             ELSE LET a == checked_sub(total_amount, Unwrap(spending))
                      b == IF IsSome(a) THEN checked_sub(Unwrap(a), Unwrap(savings)) ELSE None
                      insurance == IF IsSome(b) THEN checked_sub(Unwrap(b), Unwrap(bills)) ELSE None
                  IN  IF ~IsSome(insurance) THEN None
                      ELSE Some(<<Unwrap(spending), Unwrap(savings),
                                  Unwrap(bills), Unwrap(insurance)>>)

\* TokenClient::transfer of the token ledger: None where the ledger aborts
\* (the payer's balance does not cover the amount).
\* A ledger that moves the amount whatever the payer holds.
token_transfer_overdrawing(tok, from, to, amount) ==
    IF from = to THEN Some(tok)
    ELSE Some([tok EXCEPT ![from] = @ - amount, ![to] = @ + amount])

token_transfer(tok, from, to, amount) ==
    IF tok[from] < amount THEN None
    ELSE IF from = to THEN Some(tok)
    ELSE Some([tok EXCEPT ![from] = @ - amount, ![to] = @ + amount])

\* The transfer loop of distribute_usdc from its i-th pair on.
RECURSIVE Transfers(_, _, _, _)
Transfers(tok, from, amounts, i) ==
    IF i > 4 THEN Some(tok)
    ELSE IF amounts[i] > 0
         THEN LET t == token_transfer(tok, from, Recipients[i], amounts[i])
              IN  IF IsSome(t) THEN Transfers(Unwrap(t), from, amounts, i + 1)
                  ELSE None
    ELSE Transfers(tok, from, amounts, i + 1)

\* A distribute_usdc that pays each account the floor of its percentage, insurance
\* included, so that the remainder stays with the payer.
distribute_authorized_by_percent(st, tok, ts, auth, from, nonce, total_amount) ==
    IF ~auth THEN Panic(st, "Unauthorized") @@ [tok |-> tok]
    ELSE IF ~require_nonce(st, from, nonce)
         THEN Panic(st, "Invalid nonce") @@ [tok |-> tok]
    ELSE LET amounts == calculate_split_by_percent(get_split(st), total_amount)
             paid == Transfers(tok, from, Unwrap(amounts), 1)
         IN  IF ~IsSome(paid)
             THEN Panic(st, "transfer failed") @@ [tok |-> tok]
             ELSE Return(append_audit(Unwrap(increment_nonce(st, from)), "distrib",
                                      from, ts, TRUE), "ok")
                  @@ [tok |-> Unwrap(paid)]

\* distribute_usdc after its total_amount check.
distribute_authorized(st, tok, ts, auth, from, nonce, total_amount) ==
    IF ~auth THEN Panic(st, "Unauthorized") @@ [tok |-> tok]
    ELSE IF ~require_nonce(st, from, nonce)
         THEN Panic(st, "Invalid nonce") @@ [tok |-> tok]
    ELSE LET amounts == calculate_split(get_split(st), total_amount)
         IN  IF ~IsSome(amounts)
             THEN Panic(st, "overflow in split calculation") @@ [tok |-> tok]
             ELSE LET paid == Transfers(tok, from, Unwrap(amounts), 1)
                  IN  IF ~IsSome(paid)
                      THEN Panic(st, "transfer failed") @@ [tok |-> tok]
                      ELSE LET st2 == increment_nonce(st, from)
                           IN  IF ~IsSome(st2)
                               THEN Panic(st, "nonce overflow") @@ [tok |-> tok]
                               ELSE Return(append_audit(Unwrap(st2), "distrib",
                                                        from, ts, TRUE), "ok")
                                    @@ [tok |-> Unwrap(paid)]

\* A distribute_usdc that consumes the caller's nonce before it turns down a
\* total_amount that is not positive.
distribute_usdc_nonce_first(st, tok, ts, auth, from, nonce, total_amount) ==
    IF total_amount <= 0
    THEN Return(append_audit(Unwrap(increment_nonce(st, from)), "distrib", from,
                             ts, FALSE), "false") @@ [tok |-> tok]
    ELSE distribute_authorized(st, tok, ts, auth, from, nonce, total_amount)

distribute_usdc(st, tok, ts, auth, from, nonce, total_amount) ==
    IF total_amount <= 0
    THEN Return(append_audit(st, "distrib", from, ts, FALSE), "false")
         @@ [tok |-> tok]
    ELSE distribute_authorized(st, tok, ts, auth, from, nonce, total_amount)

\* A checksum that multiplies at every field, so that the place of a value
\* counts.
compute_checksum_positional(version, config) ==
    LET v == AsU64(version)
        s == AsU64(config.spending_percent)
        g == AsU64(config.savings_percent)
        b == AsU64(config.bills_percent)
        i == AsU64(config.insurance_percent)
        step(acc, f) == wrapping_add(wrapping_mul(acc, 31), f)
    IN  wrapping_mul(step(step(step(step(v, s), g), b), i), 31)

compute_checksum(version, config) ==
    LET v == AsU64(version)
        s == AsU64(config.spending_percent)
        g == AsU64(config.savings_percent)
        b == AsU64(config.bills_percent)
        i == AsU64(config.insurance_percent)
    IN  wrapping_mul(wrapping_add(wrapping_add(wrapping_add(wrapping_add(v, s), g), b), i), 31)

ExportSnapshot(version, checksum, config) ==
    [version |-> version, checksum |-> checksum, config |-> config]

\* export_snapshot without the owner check.
split_export_snapshot_open(st, auth, caller) ==
    IF ~auth THEN Panic(st, "Unauthorized")
    ELSE IF ~IsSome(st.CONFIG) THEN Returns(st, "ok", None)
    ELSE Returns(st, "ok",
                 Some(ExportSnapshot(SNAPSHOT_VERSION,
                         compute_checksum(SNAPSHOT_VERSION, Unwrap(st.CONFIG)),
                         Unwrap(st.CONFIG))))

\* export_snapshot: ret is the Option<ExportSnapshot> returned.
split_export_snapshot(st, auth, caller) ==
    IF ~auth THEN Panic(st, "Unauthorized")
    ELSE IF ~IsSome(st.CONFIG) THEN Returns(st, "ok", None)
    ELSE IF Unwrap(st.CONFIG).owner # caller
         THEN Panic(st, "Only the owner can export snapshot")
    ELSE Returns(st, "ok",
                 Some(ExportSnapshot(SNAPSHOT_VERSION,
                         compute_checksum(SNAPSHOT_VERSION, Unwrap(st.CONFIG)),
                         Unwrap(st.CONFIG))))

split_import_snapshot_built(overflow_checks, st, ts, auth, caller, nonce, snapshot) ==
    IF ~auth THEN Panic(st, "Unauthorized")
    ELSE IF ~require_nonce(st, caller, nonce) THEN Panic(st, "Invalid nonce")
    ELSE IF snapshot.version # SNAPSHOT_VERSION
         THEN Panic(append_audit(st, "import", caller, ts, FALSE),
                    "Unsupported snapshot version")
    ELSE IF snapshot.checksum # compute_checksum(snapshot.version, snapshot.config)
         THEN Panic(append_audit(st, "import", caller, ts, FALSE),
                    "Snapshot checksum mismatch")
    ELSE IF ~IsSome(st.CONFIG) THEN Panic(st, "Split not initialized")
    ELSE IF Unwrap(st.CONFIG).owner # caller
         THEN Panic(append_audit(st, "import", caller, ts, FALSE),
                    "Only the owner can import snapshot")
    ELSE IF ~IsSome(PercentSum(overflow_checks, Percents(snapshot.config)))
         THEN Panic(st, "attempt to add with overflow")
    ELSE IF Unwrap(PercentSum(overflow_checks, Percents(snapshot.config))) # 100
         THEN Panic(append_audit(st, "import", caller, ts, FALSE),
                    "Invalid snapshot: percentages must sum to 100")
    ELSE LET st1 == [st EXCEPT !.CONFIG = Some(snapshot.config),
                               !.SPLIT = Some(Percents(snapshot.config))]
             st2 == increment_nonce(st1, caller)
         IN  IF ~IsSome(st2) THEN Panic(st1, "nonce overflow")
             ELSE Return(append_audit(Unwrap(st2), "import", caller, ts, TRUE), "ok")

\* import_snapshot without the version check.
split_import_snapshot_any_version(st, ts, auth, caller, nonce, snapshot) ==
    IF ~auth THEN Panic(st, "Unauthorized")
    ELSE IF ~require_nonce(st, caller, nonce) THEN Panic(st, "Invalid nonce")
    ELSE IF snapshot.checksum # compute_checksum(snapshot.version, snapshot.config)
         THEN Panic(append_audit(st, "import", caller, ts, FALSE),
                    "Snapshot checksum mismatch")
    ELSE IF ~IsSome(st.CONFIG) THEN Panic(st, "Split not initialized")
    ELSE IF Unwrap(st.CONFIG).owner # caller
         THEN Panic(append_audit(st, "import", caller, ts, FALSE),
                    "Only the owner can import snapshot")
    ELSE IF PercentTotal(Percents(snapshot.config)) # 100
         THEN Panic(append_audit(st, "import", caller, ts, FALSE),
                    "Invalid snapshot: percentages must sum to 100")
    ELSE LET st1 == [st EXCEPT !.CONFIG = Some(snapshot.config),
                               !.SPLIT = Some(Percents(snapshot.config))]
             st2 == increment_nonce(st1, caller)
         IN  IF ~IsSome(st2) THEN Panic(st1, "nonce overflow")
             ELSE Return(append_audit(Unwrap(st2), "import", caller, ts, TRUE), "ok")

\* split_import_snapshot on percentages whose sum fits u32, where every build
\* computes the same total.
split_import_snapshot(st, ts, auth, caller, nonce, snapshot) ==
    split_import_snapshot_built(TRUE, st, ts, auth, caller, nonce, snapshot)

\* ========================================================== savings_goals
SavingsGoal(id, owner, name, target_amount, current_amount, target_date, locked) ==
    [id |-> id, owner |-> owner, name |-> name, target_amount |-> target_amount,
     current_amount |-> current_amount, target_date |-> target_date,
     locked |-> locked]

\* The instance storage of savings_goals.  (`init` writes NEXT_ID and GOALS to
\* persistent storage, which no other function of the contract reads or writes;
\* it is left out.)
GoalsInit ==
    [GOALS |-> EmptyMap, NEXT_ID |-> 0, NONCES |-> EmptyMap, AUDIT |-> <<>>]

\* A create_goal that takes any target_amount.
create_goal_any_target(st, ts, auth, owner, name, target_amount, target_date) ==
    IF ~auth THEN Panic(st, "Unauthorized")
    ELSE LET next_id == st.NEXT_ID + 1
             goal == SavingsGoal(next_id, owner, name, target_amount, 0,
                                 target_date, TRUE)
             st1 == [st EXCEPT !.GOALS = MapSet(st.GOALS, next_id, goal),
                               !.NEXT_ID = next_id]
         IN  Returns(append_audit(st1, "create", owner, ts, TRUE), "ok", next_id)

create_goal(st, ts, auth, owner, name, target_amount, target_date) ==
    IF ~auth THEN Panic(st, "Unauthorized")
    ELSE IF target_amount <= 0
         THEN Panic(append_audit(st, "create", owner, ts, FALSE),
                    "Target amount must be positive")
    ELSE LET next_id == st.NEXT_ID + 1
             goal == SavingsGoal(next_id, owner, name, target_amount, 0,
                                 target_date, TRUE)
             st1 == [st EXCEPT !.GOALS = MapSet(st.GOALS, next_id, goal),
                               !.NEXT_ID = next_id]
         IN  Returns(append_audit(st1, "create", owner, ts, TRUE), "ok", next_id)

\* checked_add of i128: None on overflow, which no value of the model reaches.
checked_add(a, b) == Some(a + b)

\* An add_to_goal that stores no more than the target.
add_to_goal_up_to_target(st, ts, auth, caller, goal_id, amount) ==
    IF ~auth THEN Panic(st, "Unauthorized")
    ELSE IF amount <= 0
         THEN Panic(append_audit(st, "add", caller, ts, FALSE),
                    "Amount must be positive")
    ELSE IF ~MapHas(st.GOALS, goal_id)
         THEN Panic(append_audit(st, "add", caller, ts, FALSE),
                    "Goal not found")
    ELSE IF st.GOALS[goal_id].owner # caller
         THEN Panic(append_audit(st, "add", caller, ts, FALSE),
                    "Only the goal owner can add funds")
    ELSE LET sum == st.GOALS[goal_id].current_amount + amount
             goal == [st.GOALS[goal_id] EXCEPT
                        !.current_amount = IF sum > st.GOALS[goal_id].target_amount
                                           THEN st.GOALS[goal_id].target_amount
                                           ELSE sum]
             st1 == [st EXCEPT !.GOALS = MapSet(st.GOALS, goal_id, goal)]
         IN  Returns(append_audit(st1, "add", caller, ts, TRUE), "ok",
                     goal.current_amount)

add_to_goal(st, ts, auth, caller, goal_id, amount) ==
    IF ~auth THEN Panic(st, "Unauthorized")
    ELSE IF amount <= 0
         THEN Panic(append_audit(st, "add", caller, ts, FALSE),
                    "Amount must be positive")
    ELSE IF ~MapHas(st.GOALS, goal_id)
         THEN Panic(append_audit(st, "add", caller, ts, FALSE),
                    "Goal not found")
    ELSE IF st.GOALS[goal_id].owner # caller
         THEN Panic(append_audit(st, "add", caller, ts, FALSE),
                    "Only the goal owner can add funds")
    ELSE LET sum == checked_add(st.GOALS[goal_id].current_amount, amount)
         IN  IF ~IsSome(sum) THEN Panic(st, "overflow")
             ELSE LET goal == [st.GOALS[goal_id] EXCEPT !.current_amount = Unwrap(sum)]
                      st1 == [st EXCEPT !.GOALS = MapSet(st.GOALS, goal_id, goal)]
                  IN  Returns(append_audit(st1, "add", caller, ts, TRUE), "ok",
                              goal.current_amount)

\* An event: the SavingsEvent of its topics and the data published with it.
Event(topic, data) == [topic |-> topic, data |-> data]

\* The events of add_to_goal with the completion event published only above the
\* target.
add_to_goal_events_above_target(st, ts, auth, caller, goal_id, amount) ==
    LET out == add_to_goal(st, ts, auth, caller, goal_id, amount)
    IN  IF out.panicked THEN <<>>
        ELSE LET goal == out.st.GOALS[goal_id]
                 is_completed == goal.current_amount > goal.target_amount
             IN  <<Event("FundsAdded", <<goal_id, goal.owner, amount>>)>>
                 \o (IF is_completed
                     THEN <<Event("GoalCompleted", <<goal_id, goal.owner>>)>>
                     ELSE <<>>)

\* The events an add_to_goal invocation leaves on the ledger, in the order
\* published: none when it panics, FundsAdded when it returns, followed by
\* GoalCompleted when is_completed.
add_to_goal_events(st, ts, auth, caller, goal_id, amount) ==
    LET out == add_to_goal(st, ts, auth, caller, goal_id, amount)
    IN  IF out.panicked THEN <<>>
        ELSE LET goal == out.st.GOALS[goal_id]
                 is_completed == goal.current_amount >= goal.target_amount
             IN  <<Event("FundsAdded", <<goal_id, goal.owner, amount>>)>>
                 \o (IF is_completed
                     THEN <<Event("GoalCompleted", <<goal_id, goal.owner>>)>>
                     ELSE <<>>)

\* withdraw_from_goal that looks at the balance before the lock.
withdraw_from_goal_balance_first(st, ts, auth, caller, goal_id, amount) ==
    IF ~auth THEN Panic(st, "Unauthorized")
    ELSE IF amount <= 0
         THEN Panic(append_audit(st, "withdraw", caller, ts, FALSE),
                    "Amount must be positive")
    ELSE IF ~MapHas(st.GOALS, goal_id)
         THEN Panic(append_audit(st, "withdraw", caller, ts, FALSE),
                    "Goal not found")
    ELSE IF st.GOALS[goal_id].owner # caller
         THEN Panic(append_audit(st, "withdraw", caller, ts, FALSE),
                    "Only the goal owner can withdraw funds")
    ELSE IF amount > st.GOALS[goal_id].current_amount
         THEN Panic(append_audit(st, "withdraw", caller, ts, FALSE),
                    "Insufficient balance")
    ELSE IF st.GOALS[goal_id].locked
         THEN Panic(append_audit(st, "withdraw", caller, ts, FALSE),
                    "Cannot withdraw from a locked goal")
    ELSE LET diff == checked_sub(st.GOALS[goal_id].current_amount, amount)
         IN  IF ~IsSome(diff) THEN Panic(st, "underflow")
             ELSE LET goal == [st.GOALS[goal_id] EXCEPT !.current_amount = Unwrap(diff)]
                      st1 == [st EXCEPT !.GOALS = MapSet(st.GOALS, goal_id, goal)]
                  IN  Returns(append_audit(st1, "withdraw", caller, ts, TRUE), "ok",
                              goal.current_amount)

withdraw_from_goal(st, ts, auth, caller, goal_id, amount) ==
    IF ~auth THEN Panic(st, "Unauthorized")
    ELSE IF amount <= 0
         THEN Panic(append_audit(st, "withdraw", caller, ts, FALSE),
                    "Amount must be positive")
    ELSE IF ~MapHas(st.GOALS, goal_id)
         THEN Panic(append_audit(st, "withdraw", caller, ts, FALSE),
                    "Goal not found")
    ELSE IF st.GOALS[goal_id].owner # caller
         THEN Panic(append_audit(st, "withdraw", caller, ts, FALSE),
                    "Only the goal owner can withdraw funds")
    ELSE IF st.GOALS[goal_id].locked
         THEN Panic(append_audit(st, "withdraw", caller, ts, FALSE),
                    "Cannot withdraw from a locked goal")
    ELSE IF amount > st.GOALS[goal_id].current_amount
         THEN Panic(append_audit(st, "withdraw", caller, ts, FALSE),
                    "Insufficient balance")
    ELSE LET diff == checked_sub(st.GOALS[goal_id].current_amount, amount)
         IN  IF ~IsSome(diff) THEN Panic(st, "underflow")
             ELSE LET goal == [st.GOALS[goal_id] EXCEPT !.current_amount = Unwrap(diff)]
                      st1 == [st EXCEPT !.GOALS = MapSet(st.GOALS, goal_id, goal)]
                  IN  Returns(append_audit(st1, "withdraw", caller, ts, TRUE), "ok",
                              goal.current_amount)

\* lock_goal (locked = TRUE, operation "lock") and unlock_goal (locked = FALSE,
\* operation "unlock") differ in the flag they store and in their tags alone.
set_goal_lock(st, ts, auth, caller, goal_id, operation, locked) ==
    IF ~auth THEN Panic(st, "Unauthorized")
    ELSE IF ~MapHas(st.GOALS, goal_id)
         THEN Panic(append_audit(st, operation, caller, ts, FALSE), "Goal not found")
    ELSE IF st.GOALS[goal_id].owner # caller
         THEN Panic(append_audit(st, operation, caller, ts, FALSE),
                    IF locked THEN "Only the goal owner can lock this goal"
                    ELSE "Only the goal owner can unlock this goal")
    ELSE LET goal == [st.GOALS[goal_id] EXCEPT !.locked = locked]
             st1 == [st EXCEPT !.GOALS = MapSet(st.GOALS, goal_id, goal)]
         IN  Return(append_audit(st1, operation, caller, ts, TRUE), "ok")

lock_goal(st, ts, auth, caller, goal_id) ==
    set_goal_lock(st, ts, auth, caller, goal_id, "lock", TRUE)

unlock_goal(st, ts, auth, caller, goal_id) ==
    set_goal_lock(st, ts, auth, caller, goal_id, "unlock", FALSE)

get_goal(st, goal_id) ==
    IF MapHas(st.GOALS, goal_id) THEN Some(st.GOALS[goal_id]) ELSE None

\* The goals stored under the ids lo..hi, in ascending id order.
RECURSIVE GoalsInRange(_, _, _)
GoalsInRange(goals, lo, hi) ==
    IF lo > hi THEN <<>>
    ELSE (IF MapHas(goals, lo) THEN <<goals[lo]>> ELSE <<>>)
         \o GoalsInRange(goals, lo + 1, hi)

get_all_goals(st, owner) ==
    SelectSeq(GoalsInRange(st.GOALS, 1, st.NEXT_ID), LAMBDA g : g.owner = owner)

is_goal_completed(st, goal_id) ==
    IF MapHas(st.GOALS, goal_id)
    THEN st.GOALS[goal_id].current_amount >= st.GOALS[goal_id].target_amount
    ELSE FALSE

RECURSIVE ChecksumFold(_, _, _)
ChecksumFold(c, goals, i) ==
    IF i > Len(goals) THEN c
    ELSE ChecksumFold(
            wrapping_add(wrapping_add(wrapping_add(c, AsU64(goals[i].id)),
                                      AsU64(goals[i].target_amount)),
                         AsU64(goals[i].current_amount)),
            goals, i + 1)

compute_goals_checksum(version, next_id, goals) ==
    wrapping_mul(ChecksumFold(AsU64(version) + AsU64(next_id), goals, 1), 31)

GoalsExportSnapshot(version, checksum, next_id, goals) ==
    [version |-> version, checksum |-> checksum, next_id |-> next_id, goals |-> goals]

goals_export_snapshot(st, auth, caller) ==
    IF ~auth THEN Panic(st, "Unauthorized")
    ELSE LET list == GoalsInRange(st.GOALS, 1, st.NEXT_ID)
         IN  Returns(st, "ok",
                     Some(GoalsExportSnapshot(SNAPSHOT_VERSION,
                        compute_goals_checksum(SNAPSHOT_VERSION, st.NEXT_ID, list),
                        st.NEXT_ID, list)))

\* The map import_snapshot builds from the snapshot's list from its i-th goal on.
RECURSIVE GoalsFromList(_, _, _)
GoalsFromList(goals, list, i) ==
    IF i > Len(list) THEN goals
    ELSE GoalsFromList(MapSet(goals, list[i].id, list[i]), list, i + 1)

\* import_snapshot that writes the snapshot's goals over the goals held.
goals_import_snapshot_merging(st, ts, auth, caller, nonce, snapshot) ==
    IF ~auth THEN Panic(st, "Unauthorized")
    ELSE IF ~require_nonce(st, caller, nonce) THEN Panic(st, "Invalid nonce")
    ELSE IF snapshot.version # SNAPSHOT_VERSION
         THEN Panic(append_audit(st, "import", caller, ts, FALSE),
                    "Unsupported snapshot version")
    ELSE IF snapshot.checksum #
              compute_goals_checksum(snapshot.version, snapshot.next_id, snapshot.goals)
         THEN Panic(append_audit(st, "import", caller, ts, FALSE),
                    "Snapshot checksum mismatch")
    ELSE LET st1 == [st EXCEPT !.GOALS = GoalsFromList(st.GOALS, snapshot.goals, 1),
                               !.NEXT_ID = snapshot.next_id]
             st2 == increment_nonce(st1, caller)
         IN  IF ~IsSome(st2) THEN Panic(st1, "nonce overflow")
             ELSE Return(append_audit(Unwrap(st2), "import", caller, ts, TRUE), "ok")

goals_import_snapshot(st, ts, auth, caller, nonce, snapshot) ==
    IF ~auth THEN Panic(st, "Unauthorized")
    ELSE IF ~require_nonce(st, caller, nonce) THEN Panic(st, "Invalid nonce")
    ELSE IF snapshot.version # SNAPSHOT_VERSION
         THEN Panic(append_audit(st, "import", caller, ts, FALSE),
                    "Unsupported snapshot version")
    ELSE IF snapshot.checksum #
              compute_goals_checksum(snapshot.version, snapshot.next_id, snapshot.goals)
         THEN Panic(append_audit(st, "import", caller, ts, FALSE),
                    "Snapshot checksum mismatch")
    ELSE LET st1 == [st EXCEPT !.GOALS = GoalsFromList(EmptyMap, snapshot.goals, 1),
                               !.NEXT_ID = snapshot.next_id]
             st2 == increment_nonce(st1, caller)
         IN  IF ~IsSome(st2) THEN Panic(st1, "nonce overflow")
             ELSE Return(append_audit(Unwrap(st2), "import", caller, ts, TRUE), "ok")

\* ========================================================== bill_payments
Bill(id, owner, name, amount, due_date, recurring, frequency_days, paid) ==
    [id |-> id, owner |-> owner, name |-> name, amount |-> amount,
     due_date |-> due_date, recurring |-> recurring,
     frequency_days |-> frequency_days, paid |-> paid]

BillsInit == [BILLS |-> EmptyMap, NEXT_ID |-> 0]

create_bill(st, auth, owner, name, amount, due_date, recurring, frequency_days) ==
    IF ~auth THEN Panic(st, "Unauthorized")
    ELSE IF amount <= 0 THEN Panic(st, "Amount must be positive")
    ELSE IF recurring /\ frequency_days = 0
         THEN Panic(st, "Frequency days must be greater than 0 for recurring bills")
    ELSE LET next_id == st.NEXT_ID + 1
             bill == Bill(next_id, owner, name, amount, due_date, recurring,
                          frequency_days, FALSE)
         IN  Returns([st EXCEPT !.BILLS = MapSet(st.BILLS, next_id, bill),
                                !.NEXT_ID = next_id], "ok", next_id)

\* a + b on u64 as a build computes it: with overflow checks None where the
\* sum does not fit (the addition panics), without them the sum modulo 2^w.
u64_plus(overflow_checks, a, b) ==
    IF a <= (U64_MODULUS - 1) - b THEN Some(a + b)
    ELSE IF overflow_checks THEN None
    ELSE Some(a - ((U64_MODULUS - 1) - b) - 1)

\* A pay_bill that does not look at the paid flag.
pay_bill_built_repeatable(overflow_checks, st, auth, caller, bill_id) ==
    IF ~auth THEN Panic(st, "Unauthorized")
    ELSE IF ~MapHas(st.BILLS, bill_id) THEN Panic(st, "Bill not found")
    ELSE IF st.BILLS[bill_id].owner # caller
         THEN Panic(st, "Only the bill owner can pay this bill")
    ELSE LET bill == [st.BILLS[bill_id] EXCEPT !.paid = ~@]
         IN  Return([st EXCEPT !.BILLS = MapSet(st.BILLS, bill_id, bill)], "ok")

\* pay_bill; `frequency_days as u64 * 86400` fits u64 for every u32
\* frequency_days, the sum with due_date need not.
pay_bill_built(overflow_checks, st, auth, caller, bill_id) ==
    IF ~auth THEN Panic(st, "Unauthorized")
    ELSE IF ~MapHas(st.BILLS, bill_id) THEN Panic(st, "Bill not found")
    ELSE IF st.BILLS[bill_id].owner # caller
         THEN Panic(st, "Only the bill owner can pay this bill")
    ELSE IF st.BILLS[bill_id].paid THEN Panic(st, "Bill is already paid")
    ELSE LET bill == [st.BILLS[bill_id] EXCEPT !.paid = TRUE]
             next_due_date == u64_plus(overflow_checks, bill.due_date,
                                       bill.frequency_days * 86400)
             next_id == st.NEXT_ID + 1
         IN  IF bill.recurring /\ ~IsSome(next_due_date)
             THEN Panic(st, "attempt to add with overflow")
             ELSE LET st1 ==
                        IF bill.recurring
                        THEN [st EXCEPT
                                !.BILLS = MapSet(st.BILLS, next_id,
                                            Bill(next_id, bill.owner, bill.name,
                                                 bill.amount, Unwrap(next_due_date),
                                                 TRUE, bill.frequency_days, FALSE)),
                                !.NEXT_ID = next_id]
                        ELSE st
                  IN  Return([st1 EXCEPT !.BILLS = MapSet(st1.BILLS, bill_id, bill)],
                             "ok")

\* pay_bill on bills whose next due date fits u64, where every build computes
\* the same date.
pay_bill(st, auth, caller, bill_id) ==
    pay_bill_built(TRUE, st, auth, caller, bill_id)

\* The sum of the field `field` of the records of list from the i-th on, as
\* the loops `total += record.field` compute it where the sum fits i128.
RECURSIVE FieldTotal(_, _, _)
FieldTotal(list, field, i) ==
    IF i > Len(list) THEN 0 ELSE list[i][field] + FieldTotal(list, field, i + 1)

\* get_unpaid_bills: the scan of the ids 1..=NEXT_ID, keeping the unpaid bills
\* of owner.
get_unpaid_bills(st, owner) ==
    SelectSeq(GoalsInRange(st.BILLS, 1, st.NEXT_ID),
              LAMBDA bill : ~bill.paid /\ bill.owner = owner)

get_total_unpaid(st, owner) == FieldTotal(get_unpaid_bills(st, owner), "amount", 1)

get_bill(st, bill_id) ==
    IF MapHas(st.BILLS, bill_id) THEN Some(st.BILLS[bill_id]) ELSE None

\* ============================================================== insurance
InsurancePolicy(id, owner, name, coverage_type, monthly_premium, coverage_amount, active, next_payment_date) ==
    [id |-> id, owner |-> owner, name |-> name, coverage_type |-> coverage_type,
     monthly_premium |-> monthly_premium, coverage_amount |-> coverage_amount,
     active |-> active, next_payment_date |-> next_payment_date]

PolicyInit == [POLICIES |-> EmptyMap, NEXT_ID |-> 0]

create_policy(st, ts, auth, owner, name, coverage_type, monthly_premium, coverage_amount) ==
    IF ~auth THEN Panic(st, "Unauthorized")
    ELSE IF monthly_premium <= 0
         THEN Panic(st, "Monthly premium must be positive")
    ELSE IF coverage_amount <= 0
         THEN Panic(st, "Coverage amount must be positive")
    ELSE LET next_id == st.NEXT_ID + 1
             policy == InsurancePolicy(next_id, owner, name, coverage_type,
                                       monthly_premium, coverage_amount, TRUE,
                                       ts + 30 * 86400)
         IN  Returns([st EXCEPT !.POLICIES = MapSet(st.POLICIES, next_id, policy),
                                !.NEXT_ID = next_id], "ok", next_id)

\* A pay_premium that does not look at the active flag.
pay_premium_on_any_policy(st, ts, auth, caller, policy_id) ==
    IF ~auth THEN Panic(st, "Unauthorized")
    ELSE IF ~MapHas(st.POLICIES, policy_id) THEN Panic(st, "Policy not found")
    ELSE IF st.POLICIES[policy_id].owner # caller
         THEN Panic(st, "Only the policy owner can pay premiums")
    ELSE LET policy == [st.POLICIES[policy_id] EXCEPT
                            !.next_payment_date = ts + 30 * 86400]
         IN  Return([st EXCEPT !.POLICIES = MapSet(st.POLICIES, policy_id, policy)],
                    "ok")

pay_premium(st, ts, auth, caller, policy_id) ==
    IF ~auth THEN Panic(st, "Unauthorized")
    ELSE IF ~MapHas(st.POLICIES, policy_id) THEN Panic(st, "Policy not found")
    ELSE IF st.POLICIES[policy_id].owner # caller
         THEN Panic(st, "Only the policy owner can pay premiums")
    ELSE IF ~st.POLICIES[policy_id].active THEN Panic(st, "Policy is not active")
    ELSE LET policy == [st.POLICIES[policy_id] EXCEPT
                            !.next_payment_date = ts + 30 * 86400]
         IN  Return([st EXCEPT !.POLICIES = MapSet(st.POLICIES, policy_id, policy)],
                    "ok")

\* A deactivate_policy that asks for the caller's authorization only.
deactivate_policy_by_anyone(st, auth, caller, policy_id) ==
    IF ~auth THEN Panic(st, "Unauthorized")
    ELSE IF ~MapHas(st.POLICIES, policy_id) THEN Panic(st, "Policy not found")
    ELSE LET policy == [st.POLICIES[policy_id] EXCEPT !.active = FALSE]
         IN  Return([st EXCEPT !.POLICIES = MapSet(st.POLICIES, policy_id, policy)],
                    "ok")

deactivate_policy(st, auth, caller, policy_id) ==
    IF ~auth THEN Panic(st, "Unauthorized")
    ELSE IF ~MapHas(st.POLICIES, policy_id) THEN Panic(st, "Policy not found")
    ELSE IF st.POLICIES[policy_id].owner # caller
         THEN Panic(st, "Only the policy owner can deactivate this policy")
    ELSE LET policy == [st.POLICIES[policy_id] EXCEPT !.active = FALSE]
         IN  Return([st EXCEPT !.POLICIES = MapSet(st.POLICIES, policy_id, policy)],
                    "ok")

\* get_active_policies: the scan of the ids 1..=NEXT_ID, keeping the active
\* policies of owner.
get_active_policies(st, owner) ==
    SelectSeq(GoalsInRange(st.POLICIES, 1, st.NEXT_ID),
              LAMBDA policy : policy.active /\ policy.owner = owner)

get_total_monthly_premium(st, owner) ==
    FieldTotal(get_active_policies(st, owner), "monthly_premium", 1)

get_policy(st, policy_id) ==
    IF MapHas(st.POLICIES, policy_id) THEN Some(st.POLICIES[policy_id]) ELSE None

\* ============================================================ the callers
\* The nonces a caller may send: the expected one, its neighbours and 0.
NonceChoices(st, p) ==
    {n \in {0, get_nonce(st, p) - 1, get_nonce(st, p), get_nonce(st, p) + 1} : n >= 0}

PercentValues == {t[i] : t \in PercentTuples, i \in 1..4} \cup {0, 10}

\* The snapshots that differ from the exported snapshot s in exactly one field
\* of its payload (the configuration), checksum and version kept.
TamperedSplit(s) ==
    {[s EXCEPT !.config.owner = o] : o \in Principals \ {s.config.owner}}
    \cup {[s EXCEPT !.config.initialized = ~s.config.initialized]}
    \cup {[s EXCEPT !.config.spending_percent = x] :
             x \in PercentValues \ {s.config.spending_percent}}
    \cup {[s EXCEPT !.config.savings_percent = x] :
             x \in PercentValues \ {s.config.savings_percent}}
    \cup {[s EXCEPT !.config.bills_percent = x] :
             x \in PercentValues \ {s.config.bills_percent}}
    \cup {[s EXCEPT !.config.insurance_percent = x] :
             x \in PercentValues \ {s.config.insurance_percent}}

\* A snapshot with its version or its checksum field altered.
Corrupted(s) ==
    {[s EXCEPT !.version = SNAPSHOT_VERSION + 1], [s EXCEPT !.checksum = s.checksum + 1]}

\* Snapshots a caller builds itself, with the checksum of their payload: one
\* that names bob the owner, one whose percentages sum to 200, one that is not
\* flagged initialized.
CraftedConfig(config) ==
    ExportSnapshot(SNAPSHOT_VERSION, compute_checksum(SNAPSHOT_VERSION, config),
                   config)

CraftedSplit ==
    {CraftedConfig(SplitConfig("bob", <<40, 30, 20, 10>>, TRUE)),
     CraftedConfig(SplitConfig("alice", <<50, 50, 50, 50>>, TRUE)),
     CraftedConfig(SplitConfig("alice", <<50, 30, 15, 5>>, FALSE))}

\* The snapshots import_snapshot is called with: the exported one, the exported
\* one with its version, its checksum, its owner or its spending percentage
\* altered, and the crafted ones.
SplitSnapshots ==
    (IF IsSome(snap)
     THEN {Unwrap(snap)} \cup Corrupted(Unwrap(snap))
          \cup {[Unwrap(snap) EXCEPT !.config.owner = o] :
                   o \in Principals \ {Unwrap(snap).config.owner}}
          \cup {[Unwrap(snap) EXCEPT !.config.spending_percent = @ + 10]}
     ELSE {})
    \cup CraftedSplit

GoalNames == {"school"}
TargetAmounts == {0, 100}
TargetDates == {0}
DepositAmounts == {0, 40, 60}
GoalIds(st) == (DOMAIN st.GOALS) \cup {st.NEXT_ID + 1}

\* The snapshots that differ from the exported snapshot s in exactly one field
\* of its payload (next_id or one field of one goal), checksum and version kept.
TamperedGoals(s) ==
    {[s EXCEPT !.next_id = n] : n \in {s.next_id + 1, s.next_id - 1} \cap Nat}
    \cup UNION {
        {[s EXCEPT !.goals[i].owner = o] : o \in Principals \ {s.goals[i].owner}}
        \cup {[s EXCEPT !.goals[i].name = "medical"],
              [s EXCEPT !.goals[i].target_date = s.goals[i].target_date + 1],
              [s EXCEPT !.goals[i].locked = ~s.goals[i].locked],
              [s EXCEPT !.goals[i].target_amount = s.goals[i].target_amount + 1],
              [s EXCEPT !.goals[i].current_amount = s.goals[i].current_amount + 1],
              [s EXCEPT !.goals[i].id = s.goals[i].id + 1]}
        : i \in 1..Len(s.goals)}

\* Snapshots a caller builds itself, with the checksum of their payload: one
\* whose goal has an id above its next_id, one whose next_id counts a goal it
\* does not hold, one holding a locked goal with a balance.
Crafted(next_id, list) ==
    GoalsExportSnapshot(SNAPSHOT_VERSION,
                        compute_goals_checksum(SNAPSHOT_VERSION, next_id, list),
                        next_id, list)

CraftedGoals ==
    {Crafted(0, <<SavingsGoal(1, "bob", "school", 100, 60, 0, FALSE)>>),
     Crafted(1, <<>>),
     Crafted(1, <<SavingsGoal(1, "alice", "school", 100, 60, 0, TRUE)>>)}

\* The snapshots import_snapshot is called with: the exported one, the exported
\* one with its version, its checksum, a goal's owner or a goal's balance
\* altered, and the crafted ones.
GoalSnapshots ==
    (IF IsSome(snap)
     THEN {Unwrap(snap)} \cup Corrupted(Unwrap(snap))
          \cup {[Unwrap(snap) EXCEPT !.goals[1].owner = o] :
                   o \in {p \in Principals : Len(Unwrap(snap).goals) > 0
                                              /\ p # Unwrap(snap).goals[1].owner}}
          \cup {[Unwrap(snap) EXCEPT !.goals[1].current_amount = @ + 1] :
                   x \in {1 : y \in 1..Len(Unwrap(snap).goals)}}
     ELSE {})
    \cup CraftedGoals

BillAmounts == {0, 75}
FrequencyDays == {0, 30}
Premiums == {0, 20}

\* `last` after a call: a call that returns is recorded; a call that panics
\* leaves no trace, the host discarding it whole.
Call(op, caller, nonce, arg, out) ==
    IF out.panicked THEN last
    ELSE [op |-> op, caller |-> caller, nonce |-> nonce, arg |-> arg,
          res |-> out.res, ret |-> out.ret]

NoCall ==
    [op |-> "none", caller |-> "none", nonce |-> None, arg |-> <<>>,
     res |-> "none", ret |-> <<>>]

\* audit_hist after a call that appends under the tag `operation`: the entry of a
\* call that returned, nothing of a call that panicked.
Audited(operation, caller, out) ==
    IF out.panicked THEN audit_hist
    ELSE Append(audit_hist, AuditEntry(operation, caller, now, out.res = "ok"))

Committed(out) == ~out.panicked /\ out.res = "ok"

\* ================================================================== Init
Contracts == {"remittance_split", "savings_goals", "bill_payments", "insurance"}

Fresh ==
    /\ now = 0
    /\ split_store = SplitInit
    /\ token = InitialBalance
    /\ goals_store = GoalsInit
    /\ bills_store = BillsInit
    /\ policy_store = PolicyInit
    /\ snap = None
    /\ last = NoCall
    /\ snap_state = None
    /\ used = {}
    /\ created = <<>>
    /\ audit_hist = <<>>

Init == contract \in Contracts /\ Fresh

Tick ==
    /\ contract = "insurance"
    /\ now < MaxTime
    /\ now' = now + 1
    /\ UNCHANGED <<contract, split_store, token, goals_store, bills_store,
                   policy_store, snap, last, snap_state, used, created,
                   audit_hist>>

\* --------------------------------------------- remittance_split actions
SplitOpen == contract = "remittance_split" /\ Len(split_store.AUDIT) < MaxLog

SplitFrame == UNCHANGED <<contract, now, goals_store, bills_store, policy_store, created>>

InitializeSplit ==
    /\ SplitOpen
    /\ \E owner \in Principals, auth \in BOOLEAN, t \in PercentTuples :
       \E nonce \in NonceChoices(split_store, owner) :
         LET out == initialize_split(split_store, now, auth, owner, nonce, t)
         IN  /\ split_store' = HostCommit(split_store, out)
             /\ audit_hist' = Audited("init", owner, out)
             /\ last' = Call("initialize_split", owner, Some(nonce), t, out)
             /\ used' = IF Committed(out) THEN used \cup {<<owner, nonce>>} ELSE used
    /\ UNCHANGED <<token, snap, snap_state>>
    /\ SplitFrame

UpdateSplit ==
    /\ SplitOpen
    /\ \E caller \in Principals, auth \in BOOLEAN, t \in PercentTuples :
       \E nonce \in NonceChoices(split_store, caller) :
         LET out == update_split(split_store, now, auth, caller, nonce, t)
         IN  /\ split_store' = HostCommit(split_store, out)
             /\ audit_hist' = Audited("update", caller, out)
             /\ last' = Call("update_split", caller, Some(nonce), t, out)
             /\ used' = IF Committed(out) THEN used \cup {<<caller, nonce>>} ELSE used
    /\ UNCHANGED <<token, snap, snap_state>>
    /\ SplitFrame

DistributeUsdc ==
    /\ SplitOpen
    /\ \E from \in Principals, auth \in BOOLEAN, total_amount \in TotalAmounts :
       \E nonce \in NonceChoices(split_store, from) :
         LET out == distribute_usdc(split_store, token, now, auth, from, nonce,
                                    total_amount)
         IN  /\ split_store' = HostCommit(split_store, out)
             /\ token' = IF out.panicked THEN token ELSE out.tok
             /\ audit_hist' = Audited("distrib", from, out)
             /\ last' = Call("distribute_usdc", from, Some(nonce),
                             total_amount, out)
             /\ used' = IF Committed(out) THEN used \cup {<<from, nonce>>} ELSE used
    /\ UNCHANGED <<snap, snap_state>>
    /\ SplitFrame

SplitExportSnapshot ==
    /\ SplitOpen
    /\ \E caller \in Principals, auth \in BOOLEAN :
         LET out == split_export_snapshot(split_store, auth, caller)
         IN  /\ split_store' = HostCommit(split_store, out)
             /\ last' = Call("export_snapshot", caller, None, <<>>, out)
             /\ snap' = IF IsSome(out.ret) THEN out.ret ELSE snap
             /\ snap_state' = IF IsSome(out.ret)
                              THEN Some([CONFIG |-> split_store.CONFIG,
                                         SPLIT |-> split_store.SPLIT])
                              ELSE snap_state
    /\ UNCHANGED <<token, used, audit_hist>>
    /\ SplitFrame

SplitImportSnapshot ==
    /\ SplitOpen
    /\ \E caller \in Principals, auth \in BOOLEAN, snapshot \in SplitSnapshots :
       \E nonce \in NonceChoices(split_store, caller) :
         LET out == split_import_snapshot(split_store, now, auth, caller, nonce,
                                          snapshot)
         IN  /\ split_store' = HostCommit(split_store, out)
             /\ audit_hist' = Audited("import", caller, out)
             /\ last' = Call("import_snapshot", caller, Some(nonce),
                             snapshot, out)
             /\ used' = IF Committed(out) THEN used \cup {<<caller, nonce>>} ELSE used
    /\ UNCHANGED <<token, snap, snap_state>>
    /\ SplitFrame

NextSplit ==
    \/ InitializeSplit
    \/ UpdateSplit
    \/ DistributeUsdc
    \/ SplitExportSnapshot
    \/ SplitImportSnapshot

\* ------------------------------------------------ savings_goals actions
GoalsOpen == contract = "savings_goals" /\ Len(goals_store.AUDIT) < MaxLog

GoalsFrame == UNCHANGED <<contract, now, split_store, token, bills_store, policy_store>>

CreateGoal ==
    /\ GoalsOpen
    /\ \E owner \in Principals, auth \in BOOLEAN, name \in GoalNames,
          target_amount \in TargetAmounts, target_date \in TargetDates :
         LET out == create_goal(goals_store, now, auth, owner, name,
                                target_amount, target_date)
         IN  /\ goals_store' = HostCommit(goals_store, out)
             /\ audit_hist' = Audited("create", owner, out)
             /\ last' = Call("create_goal", owner, None,
                             <<name, target_amount, target_date>>, out)
             /\ created' = IF Committed(out) THEN Append(created, out.ret) ELSE created
    /\ UNCHANGED <<snap, snap_state, used>>
    /\ GoalsFrame

AddToGoal ==
    /\ GoalsOpen
    /\ \E caller \in Principals, auth \in BOOLEAN, goal_id \in GoalIds(goals_store),
          amount \in DepositAmounts :
         LET out == add_to_goal(goals_store, now, auth, caller, goal_id, amount)
         IN  /\ goals_store' = HostCommit(goals_store, out)
             /\ audit_hist' = Audited("add", caller, out)
             /\ last' = Call("add_to_goal", caller, None,
                             <<goal_id, amount>>, out)
    /\ UNCHANGED <<snap, snap_state, used, created>>
    /\ GoalsFrame

WithdrawFromGoal ==
    /\ GoalsOpen
    /\ \E caller \in Principals, auth \in BOOLEAN, goal_id \in GoalIds(goals_store),
          amount \in DepositAmounts :
         LET out == withdraw_from_goal(goals_store, now, auth, caller, goal_id, amount)
         IN  /\ goals_store' = HostCommit(goals_store, out)
             /\ audit_hist' = Audited("withdraw", caller, out)
             /\ last' = Call("withdraw_from_goal", caller, None,
                             <<goal_id, amount>>, out)
    /\ UNCHANGED <<snap, snap_state, used, created>>
    /\ GoalsFrame

LockGoal ==
    /\ GoalsOpen
    /\ \E caller \in Principals, auth \in BOOLEAN, goal_id \in GoalIds(goals_store) :
         LET out == lock_goal(goals_store, now, auth, caller, goal_id)
         IN  /\ goals_store' = HostCommit(goals_store, out)
             /\ audit_hist' = Audited("lock", caller, out)
             /\ last' = Call("lock_goal", caller, None, <<goal_id>>, out)
    /\ UNCHANGED <<snap, snap_state, used, created>>
    /\ GoalsFrame

UnlockGoal ==
    /\ GoalsOpen
    /\ \E caller \in Principals, auth \in BOOLEAN, goal_id \in GoalIds(goals_store) :
         LET out == unlock_goal(goals_store, now, auth, caller, goal_id)
         IN  /\ goals_store' = HostCommit(goals_store, out)
             /\ audit_hist' = Audited("unlock", caller, out)
             /\ last' = Call("unlock_goal", caller, None, <<goal_id>>, out)
    /\ UNCHANGED <<snap, snap_state, used, created>>
    /\ GoalsFrame

GoalsExportSnapshotCall ==
    /\ GoalsOpen
    /\ \E caller \in Principals, auth \in BOOLEAN :
         LET out == goals_export_snapshot(goals_store, auth, caller)
         IN  /\ goals_store' = HostCommit(goals_store, out)
             /\ last' = Call("export_snapshot", caller, None, <<>>, out)
             /\ snap' = IF IsSome(out.ret) THEN out.ret ELSE snap
             /\ snap_state' = IF IsSome(out.ret)
                              THEN Some([GOALS |-> goals_store.GOALS,
                                         NEXT_ID |-> goals_store.NEXT_ID])
                              ELSE snap_state
    /\ UNCHANGED <<used, created, audit_hist>>
    /\ GoalsFrame

GoalsImportSnapshot ==
    /\ GoalsOpen
    /\ \E caller \in Principals, auth \in BOOLEAN, snapshot \in GoalSnapshots :
       \E nonce \in NonceChoices(goals_store, caller) :
         LET out == goals_import_snapshot(goals_store, now, auth, caller, nonce,
                                          snapshot)
         IN  /\ goals_store' = HostCommit(goals_store, out)
             /\ audit_hist' = Audited("import", caller, out)
             /\ last' = Call("import_snapshot", caller, Some(nonce),
                             snapshot, out)
             /\ used' = IF Committed(out) THEN used \cup {<<caller, nonce>>} ELSE used
    /\ UNCHANGED <<snap, snap_state, created>>
    /\ GoalsFrame

NextGoals ==
    \/ CreateGoal
    \/ AddToGoal
    \/ WithdrawFromGoal
    \/ LockGoal
    \/ UnlockGoal
    \/ GoalsExportSnapshotCall
    \/ GoalsImportSnapshot

\* ------------------------------------------------ bill_payments actions
BillsFrame ==
    UNCHANGED <<contract, now, split_store, token, goals_store, policy_store,
                snap, snap_state, used, audit_hist>>

CreateBill ==
    /\ contract = "bill_payments"
    /\ bills_store.NEXT_ID < MaxId
    /\ \E owner \in Principals, auth \in BOOLEAN, amount \in BillAmounts,
          recurring \in BOOLEAN, frequency_days \in FrequencyDays :
         LET out == create_bill(bills_store, auth, owner, "rent", amount, 0,
                                recurring, frequency_days)
         IN  /\ bills_store' = HostCommit(bills_store, out)
             /\ last' = Call("create_bill", owner, None,
                             <<amount, recurring, frequency_days>>, out)
             /\ created' = IF Committed(out) THEN Append(created, out.ret) ELSE created
    /\ BillsFrame

PayBill ==
    /\ contract = "bill_payments"
    /\ \E caller \in Principals, auth \in BOOLEAN,
          bill_id \in 1..(bills_store.NEXT_ID + 1) :
         LET out == pay_bill(bills_store, auth, caller, bill_id)
         IN  /\ HostCommit(bills_store, out).NEXT_ID <= MaxId
             /\ bills_store' = HostCommit(bills_store, out)
             /\ last' = Call("pay_bill", caller, None, <<bill_id>>, out)
             /\ created' = IF bills_store'.NEXT_ID # bills_store.NEXT_ID
                           THEN Append(created, bills_store'.NEXT_ID)
                           ELSE created
    /\ BillsFrame

NextBills == CreateBill \/ PayBill

\* ---------------------------------------------------- insurance actions
PolicyFrame ==
    UNCHANGED <<contract, now, split_store, token, goals_store, bills_store,
                snap, snap_state, used, audit_hist>>

CreatePolicy ==
    /\ contract = "insurance"
    /\ policy_store.NEXT_ID < MaxId
    /\ \E owner \in Principals, auth \in BOOLEAN, monthly_premium \in Premiums,
          coverage_amount \in Premiums :
         LET out == create_policy(policy_store, now, auth, owner, "health", "health",
                                  monthly_premium, coverage_amount)
         IN  /\ policy_store' = HostCommit(policy_store, out)
             /\ last' = Call("create_policy", owner, None,
                             <<monthly_premium, coverage_amount>>, out)
             /\ created' = IF Committed(out) THEN Append(created, out.ret) ELSE created
    /\ PolicyFrame

PayPremium ==
    /\ contract = "insurance"
    /\ \E caller \in Principals, auth \in BOOLEAN,
          policy_id \in 1..(policy_store.NEXT_ID + 1) :
         LET out == pay_premium(policy_store, now, auth, caller, policy_id)
         IN  /\ policy_store' = HostCommit(policy_store, out)
             /\ last' = Call("pay_premium", caller, None, <<policy_id>>, out)
    /\ UNCHANGED created
    /\ PolicyFrame

DeactivatePolicy ==
    /\ contract = "insurance"
    /\ \E caller \in Principals, auth \in BOOLEAN,
          policy_id \in 1..(policy_store.NEXT_ID + 1) :
         LET out == deactivate_policy(policy_store, auth, caller, policy_id)
         IN  /\ policy_store' = HostCommit(policy_store, out)
             /\ last' = Call("deactivate_policy", caller, None,
                             <<policy_id>>, out)
    /\ UNCHANGED created
    /\ PolicyFrame

NextPolicy == CreatePolicy \/ PayPremium \/ DeactivatePolicy

Next == Tick \/ NextSplit \/ NextGoals \/ NextBills \/ NextPolicy

Spec == Init /\ [][Next]_vars

\* ------------------------------------------------------------ SpecAudit
\* remittance_split or savings_goals under a client that keeps calling, one call
\* per ledger close.  Until the log is one short of MAX_AUDIT_ENTRIES the client
\* is alice, who initializes the split and then updates it back and forth, or
\* creates a goal and then locks and unlocks it; from there on the calls are
\* free.
TupleA == <<50, 30, 15, 5>>
TupleB == <<40, 30, 20, 10>>

AuditFrame ==
    UNCHANGED <<contract, token, bills_store, policy_store, snap, snap_state>>

AuditWarmSplit ==
    /\ contract = "remittance_split"
    /\ LET nonce == get_nonce(split_store, "alice")
           t == IF get_split(split_store) = TupleA THEN TupleB ELSE TupleA
           fresh == ~IsSome(split_store.CONFIG)
           out == IF fresh
                  THEN initialize_split(split_store, now, TRUE, "alice", nonce, t)
                  ELSE update_split(split_store, now, TRUE, "alice", nonce, t)
       IN  /\ split_store' = HostCommit(split_store, out)
           /\ audit_hist' = Audited(IF fresh THEN "init" ELSE "update", "alice", out)
           /\ last' = Call(IF fresh THEN "initialize_split" ELSE "update_split",
                           "alice", Some(nonce), t, out)
           /\ used' = IF Committed(out) THEN used \cup {<<"alice", nonce>>} ELSE used
    /\ UNCHANGED <<goals_store, created>>

AuditWarmGoals ==
    /\ contract = "savings_goals"
    /\ LET fresh == goals_store.NEXT_ID = 0
           locked == ~fresh /\ goals_store.GOALS[1].locked
           out == IF fresh
                  THEN create_goal(goals_store, now, TRUE, "alice", "school", 100, 0)
                  ELSE IF locked
                       THEN unlock_goal(goals_store, now, TRUE, "alice", 1)
                       ELSE lock_goal(goals_store, now, TRUE, "alice", 1)
           tag == IF fresh THEN "create" ELSE IF locked THEN "unlock" ELSE "lock"
       IN  /\ goals_store' = HostCommit(goals_store, out)
           /\ audit_hist' = Audited(tag, "alice", out)
           /\ last' = Call(IF fresh THEN "create_goal"
                           ELSE IF locked THEN "unlock_goal" ELSE "lock_goal",
                           "alice", None, <<1>>, out)
           /\ created' = IF fresh /\ Committed(out) THEN Append(created, out.ret)
                         ELSE created
    /\ UNCHANGED <<split_store, used>>

AuditWarm ==
    /\ Len(audit_hist) < MAX_AUDIT_ENTRIES - 1
    /\ AuditWarmSplit \/ AuditWarmGoals
    /\ now' = now + 1
    /\ AuditFrame

AuditOpen ==
    /\ Len(audit_hist) >= MAX_AUDIT_ENTRIES - 1
    /\ Len(audit_hist) < MAX_AUDIT_ENTRIES + MaxExtra

AuditUpdate ==
    /\ AuditOpen
    /\ contract = "remittance_split"
    /\ \E t \in {TupleA, TupleB} :
         LET nonce == get_nonce(split_store, "alice")
             out == update_split(split_store, now, TRUE, "alice", nonce, t)
         IN  /\ split_store' = HostCommit(split_store, out)
             /\ audit_hist' = Audited("update", "alice", out)
             /\ last' = Call("update_split", "alice", Some(nonce), t, out)
             /\ used' = IF Committed(out) THEN used \cup {<<"alice", nonce>>} ELSE used
    /\ now' = now + 1
    /\ UNCHANGED <<goals_store, created>>
    /\ AuditFrame

AuditDistribute ==
    /\ AuditOpen
    /\ contract = "remittance_split"
    /\ \E from \in Principals :
         LET out == distribute_usdc(split_store, token, now, FALSE, from, 0, 0)
         IN  /\ split_store' = HostCommit(split_store, out)
             /\ audit_hist' = Audited("distrib", from, out)
             /\ last' = Call("distribute_usdc", from, Some(0), 0, out)
    /\ now' = now + 1
    /\ UNCHANGED <<goals_store, created, used>>
    /\ AuditFrame

AuditCreateGoal ==
    /\ AuditOpen
    /\ contract = "savings_goals"
    /\ \E owner \in Principals, target_amount \in TargetAmounts \ {0} :
         LET out == create_goal(goals_store, now, TRUE, owner, "school",
                                target_amount, 0)
         IN  /\ goals_store' = HostCommit(goals_store, out)
             /\ audit_hist' = Audited("create", owner, out)
             /\ last' = Call("create_goal", owner, None,
                             <<"school", target_amount, 0>>, out)
             /\ created' = IF Committed(out) THEN Append(created, out.ret) ELSE created
    /\ now' = now + 1
    /\ UNCHANGED <<split_store, used>>
    /\ AuditFrame

AuditLockGoal ==
    /\ AuditOpen
    /\ contract = "savings_goals"
    /\ \E goal_id \in DOMAIN goals_store.GOALS :
         LET out == lock_goal(goals_store, now, TRUE, goals_store.GOALS[goal_id].owner,
                              goal_id)
         IN  /\ goals_store' = HostCommit(goals_store, out)
             /\ audit_hist' = Audited("lock", goals_store.GOALS[goal_id].owner, out)
             /\ last' = Call("lock_goal", goals_store.GOALS[goal_id].owner, None,
                             <<goal_id>>, out)
    /\ now' = now + 1
    /\ UNCHANGED <<split_store, used, created>>
    /\ AuditFrame

AuditInit == contract \in {"remittance_split", "savings_goals"} /\ Fresh

NextAudit ==
    AuditWarm \/ AuditUpdate \/ AuditDistribute \/ AuditCreateGoal \/ AuditLockGoal

SpecAudit == AuditInit /\ [][NextAudit]_vars

\* ------------------------------------------------------------- SpecCalc
\* calculate_split on every stored split: the contract starts uninitialized (the
\* default split) or initialized by alice with a tuple that sums to 100.
CalcPercents == {0, 1, 5, 10, 15, 20, 25, 30, 33, 34, 40, 50, 60, 99, 100}
CalcTuples == {t \in CalcPercents \X CalcPercents \X CalcPercents \X CalcPercents :
                 PercentTotal(t) = 100}
CalcTotals == (0..MaxTotal) \cup {999, 2000}

CalcInit ==
    /\ contract = "remittance_split"
    /\ now = 0
    /\ token = InitialBalance
    /\ goals_store = GoalsInit
    /\ bills_store = BillsInit
    /\ policy_store = PolicyInit
    /\ snap = None
    /\ snap_state = None
    /\ created = <<>>
    /\ \/ /\ split_store = SplitInit
          /\ last = NoCall
          /\ used = {}
          /\ audit_hist = <<>>
       \/ \E t \in CalcTuples :
            LET out == initialize_split(SplitInit, 0, TRUE, "alice", 0, t)
            IN  /\ split_store = out.st
                /\ last = [op |-> "initialize_split", caller |-> "alice",
                           nonce |-> Some(0), arg |-> t, res |-> out.res,
                           ret |-> out.ret]
                /\ used = {<<"alice", 0>>}
                /\ audit_hist = <<AuditEntry("init", "alice", 0, TRUE)>>

\* calculate_split and get_split_allocations write nothing; the call and the
\* amounts it returned are recorded in `last`.
CalculateSplit ==
    /\ \E total_amount \in CalcTotals :
         LET amounts == calculate_split(get_split(split_store), total_amount)
         IN  last' = IF IsSome(amounts)
                     THEN [op |-> "calculate_split", caller |-> "none",
                           nonce |-> None, arg |-> total_amount, res |-> "ok",
                           ret |-> Unwrap(amounts)]
                     ELSE last
    /\ UNCHANGED <<contract, now, split_store, token, goals_store, bills_store,
                   policy_store, snap, snap_state, used, created, audit_hist>>

SpecCalc == CalcInit /\ [][CalculateSplit]_vars

\* ============================================================= SpecNonce
\* The two contracts that keep nonces, started with alice's counter one below
\* and at the top of u64, as 2^64 - 2 and 2^64 - 1 committed calls leave it.
NonceStarts == {U64_MODULUS - 2, U64_MODULUS - 1}

NonceInit ==
    /\ contract \in {"remittance_split", "savings_goals"}
    /\ now = 0
    /\ token = InitialBalance
    /\ bills_store = BillsInit
    /\ policy_store = PolicyInit
    /\ snap = None
    /\ last = NoCall
    /\ snap_state = None
    /\ used = {}
    /\ created = <<>>
    /\ audit_hist = <<>>
    /\ \E n \in NonceStarts :
         /\ split_store =
              IF contract = "remittance_split"
              THEN [SplitInit EXCEPT !.NONCES = MapSet(EmptyMap, "alice", n)]
              ELSE SplitInit
         /\ goals_store =
              IF contract = "savings_goals"
              THEN [GoalsInit EXCEPT !.NONCES = MapSet(EmptyMap, "alice", n)]
              ELSE GoalsInit

SpecNonce == NonceInit /\ [][NextSplit \/ NextGoals]_vars

\* =========================================================== SpecGoalOps
\* savings_goals under create_goal, add_to_goal, withdraw_from_goal, lock_goal
\* and unlock_goal alone, for behaviours of up to MaxOps audited calls.
OpsOpen == contract = "savings_goals" /\ Len(goals_store.AUDIT) < MaxOps

\* The invocation of a goal operation whose handler answers out.
GoalCall(op, tag, caller, arg, out) ==
    /\ goals_store' = HostCommit(goals_store, out)
    /\ audit_hist' = Audited(tag, caller, out)
    /\ last' = Call(op, caller, None, arg, out)
    /\ created' = IF op = "create_goal" /\ Committed(out)
                  THEN Append(created, out.ret) ELSE created
    /\ UNCHANGED <<snap, snap_state, used>>
    /\ GoalsFrame

NextGoalOps ==
    \/ /\ OpsOpen
       /\ \E owner \in Principals, auth \in BOOLEAN, name \in GoalNames,
             target_amount \in TargetAmounts, target_date \in TargetDates :
            GoalCall("create_goal", "create", owner,
                     <<name, target_amount, target_date>>,
                     create_goal(goals_store, now, auth, owner, name,
                                 target_amount, target_date))
    \/ /\ OpsOpen
       /\ \E caller \in Principals, auth \in BOOLEAN,
             goal_id \in GoalIds(goals_store), amount \in DepositAmounts :
            GoalCall("add_to_goal", "add", caller, <<goal_id, amount>>,
                     add_to_goal(goals_store, now, auth, caller, goal_id, amount))
    \/ /\ OpsOpen
       /\ \E caller \in Principals, auth \in BOOLEAN,
             goal_id \in GoalIds(goals_store), amount \in DepositAmounts :
            GoalCall("withdraw_from_goal", "withdraw", caller, <<goal_id, amount>>,
                     withdraw_from_goal(goals_store, now, auth, caller, goal_id,
                                        amount))
    \/ /\ OpsOpen
       /\ \E caller \in Principals, auth \in BOOLEAN,
             goal_id \in GoalIds(goals_store) :
            GoalCall("lock_goal", "lock", caller, <<goal_id>>,
                     lock_goal(goals_store, now, auth, caller, goal_id))
    \/ /\ OpsOpen
       /\ \E caller \in Principals, auth \in BOOLEAN,
             goal_id \in GoalIds(goals_store) :
            GoalCall("unlock_goal", "unlock", caller, <<goal_id>>,
                     unlock_goal(goals_store, now, auth, caller, goal_id))

\* A freshly deployed savings_goals.
GoalOpsInit == contract = "savings_goals" /\ Fresh

SpecGoalOps == GoalOpsInit /\ [][NextGoalOps]_vars

\* ============================================================ every call
\* A call a client can make at a storage, with what the handler answers: st is
\* the storage at entry, out the handler's outcome.
Attempt(op, caller, nonce, auth, arg, st, out) ==
    [op |-> op, caller |-> caller, nonce |-> nonce, auth |-> auth, arg |-> arg,
     st |-> st, out |-> out]

\* A storage without its audit log: the record store and the nonce table.
Unaudited(st) == [k \in (DOMAIN st) \ {"AUDIT"} |-> st[k]]

\* The storage the host keeps of the call.
After(a) == HostCommit(a.st, a.out)

\* The nonces tried: every nonce up to one past the highest stored.
AttemptNonces(st) ==
    LET top == IF \E p \in Principals : get_nonce(st, p) > get_nonce(st, "alice")
               THEN get_nonce(st, "bob") ELSE get_nonce(st, "alice")
    IN  0..(top + 1)

\* The calls a client can make to remittance_split at storage st, one set per
\* operation.
SplitCalls(st, tok, ts) ==
    [i \in 1..5 |->
       CASE i = 1 ->
            {Attempt("initialize_split", c, Some(n), auth, t, st,
                     initialize_split(st, ts, auth, c, n, t)) :
               c \in Principals, auth \in BOOLEAN, n \in AttemptNonces(st),
               t \in PercentTuples}
         [] i = 2 ->
            {Attempt("update_split", c, Some(n), auth, t, st,
                     update_split(st, ts, auth, c, n, t)) :
               c \in Principals, auth \in BOOLEAN, n \in AttemptNonces(st),
               t \in PercentTuples}
         [] i = 3 ->
            {Attempt("distribute_usdc", c, Some(n), auth, total_amount, st,
                     distribute_usdc(st, tok, ts, auth, c, n, total_amount)) :
               c \in Principals, auth \in BOOLEAN, n \in AttemptNonces(st),
               total_amount \in TotalAmounts}
         [] i = 4 ->
            {Attempt("import_snapshot", c, Some(n), auth, snapshot, st,
                     split_import_snapshot(st, ts, auth, c, n, snapshot)) :
               c \in Principals, auth \in BOOLEAN, n \in AttemptNonces(st),
               snapshot \in SplitSnapshots}
         [] i = 5 ->
            {Attempt("export_snapshot", c, None, auth, <<>>, st,
                     split_export_snapshot(st, auth, c)) :
               c \in Principals, auth \in BOOLEAN}]

GoalsCalls(st, ts) ==
    [i \in 1..7 |->
       CASE i = 1 ->
            {Attempt("create_goal", c, None, auth, <<name, target_amount, target_date>>,
                     st, create_goal(st, ts, auth, c, name, target_amount, target_date)) :
               c \in Principals, auth \in BOOLEAN, name \in GoalNames,
               target_amount \in TargetAmounts, target_date \in TargetDates}
         [] i = 2 ->
            {Attempt("add_to_goal", c, None, auth, <<goal_id, amount>>, st,
                     add_to_goal(st, ts, auth, c, goal_id, amount)) :
               c \in Principals, auth \in BOOLEAN, goal_id \in GoalIds(st),
               amount \in DepositAmounts}
         [] i = 3 ->
            {Attempt("withdraw_from_goal", c, None, auth, <<goal_id, amount>>, st,
                     withdraw_from_goal(st, ts, auth, c, goal_id, amount)) :
               c \in Principals, auth \in BOOLEAN, goal_id \in GoalIds(st),
               amount \in DepositAmounts}
         [] i = 4 ->
            {Attempt("lock_goal", c, None, auth, <<goal_id>>, st,
                     lock_goal(st, ts, auth, c, goal_id)) :
               c \in Principals, auth \in BOOLEAN, goal_id \in GoalIds(st)}
         [] i = 5 ->
            {Attempt("unlock_goal", c, None, auth, <<goal_id>>, st,
                     unlock_goal(st, ts, auth, c, goal_id)) :
               c \in Principals, auth \in BOOLEAN, goal_id \in GoalIds(st)}
         [] i = 6 ->
            {Attempt("import_snapshot", c, Some(n), auth, snapshot, st,
                     goals_import_snapshot(st, ts, auth, c, n, snapshot)) :
               c \in Principals, auth \in BOOLEAN, n \in AttemptNonces(st),
               snapshot \in GoalSnapshots}
         [] i = 7 ->
            {Attempt("export_snapshot", c, None, auth, <<>>, st,
                     goals_export_snapshot(st, auth, c)) :
               c \in Principals, auth \in BOOLEAN}]

BillsCalls(st) ==
    [i \in 1..2 |->
       CASE i = 1 ->
            {Attempt("create_bill", c, None, auth, <<amount, recurring, frequency_days>>,
                     st, create_bill(st, auth, c, "rent", amount, 0, recurring,
                                     frequency_days)) :
               c \in Principals, auth \in BOOLEAN, amount \in BillAmounts,
               recurring \in BOOLEAN, frequency_days \in FrequencyDays}
         [] i = 2 ->
            {Attempt("pay_bill", c, None, auth, <<bill_id>>, st,
                     pay_bill(st, auth, c, bill_id)) :
               c \in Principals, auth \in BOOLEAN, bill_id \in 1..(st.NEXT_ID + 1)}]

PolicyCalls(st, ts) ==
    [i \in 1..3 |->
       CASE i = 1 ->
            {Attempt("create_policy", c, None, auth, <<monthly_premium, coverage_amount>>,
                     st, create_policy(st, ts, auth, c, "health", "health",
                                       monthly_premium, coverage_amount)) :
               c \in Principals, auth \in BOOLEAN, monthly_premium \in Premiums,
               coverage_amount \in Premiums}
         [] i = 2 ->
            {Attempt("pay_premium", c, None, auth, <<policy_id>>, st,
                     pay_premium(st, ts, auth, c, policy_id)) :
               c \in Principals, auth \in BOOLEAN, policy_id \in 1..(st.NEXT_ID + 1)}
         [] i = 3 ->
            {Attempt("deactivate_policy", c, None, auth, <<policy_id>>, st,
                     deactivate_policy(st, auth, c, policy_id)) :
               c \in Principals, auth \in BOOLEAN, policy_id \in 1..(st.NEXT_ID + 1)}]

\* The calls a client can make to the contract running, were its storage st.
CallsAt(st) ==
    CASE contract = "remittance_split" -> SplitCalls(st, token, now)
      [] contract = "savings_goals" -> GoalsCalls(st, now)
      [] contract = "bill_payments" -> BillsCalls(st)
      [] contract = "insurance" -> PolicyCalls(st, now)

\* The instance storage of the contract running.
Store ==
    CASE contract = "remittance_split" -> split_store
      [] contract = "savings_goals" -> goals_store
      [] contract = "bill_payments" -> bills_store
      [] contract = "insurance" -> policy_store

\* The calls a client can make in the current state.
Calls == CallsAt(Store)

\* The two contracts that keep a nonce table.
Guarded == contract \in {"remittance_split", "savings_goals"}

\* The operations that take a nonce.
NonceBearing ==
    {"initialize_split", "update_split", "distribute_usdc", "import_snapshot"}

\* The operations of the two contracts that write records.
Mutating ==
    NonceBearing \cup {"create_goal", "add_to_goal", "withdraw_from_goal",
                       "lock_goal", "unlock_goal"}

\* ================================================================ claims
\* ------------------------------------------------------------------- C1
\* The number of nonce-bearing calls by p that committed so far.
CommittedBy(p) == Cardinality({u \in used : u[1] = p})

\* The call moves the nonce of its caller by one if it is a nonce-bearing call
\* that commits, and moves no nonce otherwise.
NonceStep(a) ==
    \A p \in Principals :
      get_nonce(After(a), p) =
        IF Committed(a.out) /\ a.op \in NonceBearing /\ p = a.caller
        THEN get_nonce(a.st, p) + 1
        ELSE get_nonce(a.st, p)

ReplayRejected(a) ==
    (/\ a.auth
     /\ a.op \in NonceBearing
     /\ <<a.caller, Unwrap(a.nonce)>> \in used)
    => /\ \/ a.out.panicked /\ a.out.res = "Invalid nonce"
          \/ /\ a.op = "distribute_usdc"
             /\ a.arg <= 0
             /\ ~a.out.panicked
             /\ a.out.res = "false"
       /\ After(a).NONCES = a.st.NONCES
       /\ Unaudited(After(a)) = Unaudited(a.st)

\* C2 (as amended): once a nonce-bearing call by p with nonce n has committed,
\* every later authorized nonce-bearing call by p with the same n, of the same
\* or another operation, fails: it aborts with "Invalid nonce", except
\* distribute_usdc with total_amount <= 0, which returns false before it looks
\* at the nonce; either way the record store and the nonce table stay as they
\* were.
C2_CommittedNonceNeverAcceptedAgain ==
    Guarded =>
      \A i \in DOMAIN Calls : \A a \in Calls[i] : ReplayRejected(a)

\* update_split has committed with a nonce, and the same call made again is
\* turned down on the nonce check.
C2_Witness ==
    /\ contract = "remittance_split"
    /\ last.op = "update_split"
    /\ last.res = "ok"
    /\ <<last.caller, Unwrap(last.nonce)>> \in used
    /\ update_split(split_store, now, TRUE, last.caller, Unwrap(last.nonce),
                    last.arg).res = "Invalid nonce"

\* C2 as stated: whatever the first call did, succeed or fail, a second
\* nonce-bearing call by the same principal with the same nonce fails with the
\* invalid-nonce error.
C2_SecondCallAlwaysRejected ==
    Guarded =>
      \A i \in DOMAIN Calls : \A first \in Calls[i] :
        (first.auth /\ first.op \in NonceBearing)
        => \A j \in DOMAIN Calls : \A second \in CallsAt(After(first))[j] :
             (/\ second.auth
              /\ second.op \in NonceBearing
              /\ second.caller = first.caller
              /\ second.nonce = first.nonce)
             => second.out.panicked /\ second.out.res = "Invalid nonce"

\* ------------------------------------------------------------------- C3
Sum4(t) == t[1] + t[2] + t[3] + t[4]

\* C3: for every stored split (its percentages sum to 100) and for the default
\* split used before initialization, calculate_split of a total T > 0 returns
\* four amounts whose sum is exactly T.
C3_SharesSumToTotal ==
    /\ PercentTotal(get_split(split_store)) = 100
    /\ \A T \in CalcTotals :
         T > 0 => LET amounts == calculate_split(get_split(split_store), T)
                  IN  IsSome(amounts) /\ Sum4(Unwrap(amounts)) = T
    /\ last.op = "calculate_split" => Sum4(last.ret) = last.arg

\* calculate_split(999) has returned on an initialized split, its last amount
\* above the floor of its own percentage: the rounding went to insurance.
C3_Witness ==
    /\ IsSome(split_store.CONFIG)
    /\ last.op = "calculate_split"
    /\ last.arg = 999
    /\ 100 * last.ret[4] >= 999 * get_split(split_store)[4] + 100

\* ------------------------------------------------------------------- C4
\* r is the floor of x / 100.
IsFloorOfHundredth(r, x) == 100 * r <= x /\ x < 100 * (r + 1)

FloorsAndRemainder(split, T, amounts) ==
    /\ IsFloorOfHundredth(amounts[1], T * split[1])
    /\ IsFloorOfHundredth(amounts[2], T * split[2])
    /\ IsFloorOfHundredth(amounts[3], T * split[3])
    /\ amounts[4] = T - amounts[1] - amounts[2] - amounts[3]

\* C4: calculate_split(T) returns floor(T*spending/100), floor(T*savings/100),
\* floor(T*bills/100) and T minus those three; the stored split (40,30,20,10)
\* with T = 999 gives (399, 299, 199, 102) and the default split with T = 2000
\* gives (1000, 600, 300, 100).
C4_FloorsAndRemainder ==
    /\ \A T \in CalcTotals :
         T > 0 => LET amounts == calculate_split(get_split(split_store), T)
                  IN  /\ IsSome(amounts)
                      /\ FloorsAndRemainder(get_split(split_store), T, Unwrap(amounts))
    /\ last.op = "calculate_split"
         => FloorsAndRemainder(get_split(split_store), last.arg, last.ret)
    /\ (last.op = "calculate_split" /\ last.arg = 999
        /\ get_split(split_store) = <<40, 30, 20, 10>>)
         => last.ret = <<399, 299, 199, 102>>
    /\ (last.op = "calculate_split" /\ last.arg = 2000 /\ ~IsSome(split_store.SPLIT))
         => last.ret = <<1000, 600, 300, 100>>

\* calculate_split(999) has returned on the stored split (40,30,20,10).
C4_Witness ==
    /\ split_store.SPLIT = Some(<<40, 30, 20, 10>>)
    /\ last.op = "calculate_split"
    /\ last.arg = 999
    /\ last.ret = <<399, 299, 199, 102>>

\* ------------------------------------------------------------------- C5
\* The managed state a snapshot stands for: the configuration and split of
\* remittance_split, the goals and id counter of savings_goals.
Managed ==
    IF contract = "savings_goals"
    THEN [GOALS |-> goals_store.GOALS, NEXT_ID |-> goals_store.NEXT_ID]
    ELSE [CONFIG |-> split_store.CONFIG, SPLIT |-> split_store.SPLIT]

\* C5: when the snapshot X that export_snapshot returned in state S has been
\* imported with success, whatever happened in between, the managed state is
\* S's again.
C5_SnapshotRoundTrip ==
    (/\ Guarded
     /\ IsSome(snap)
     /\ last.op = "import_snapshot"
     /\ last.res = "ok"
     /\ last.arg = Unwrap(snap))
    => Managed = Unwrap(snap_state)

\* ------------------------------------------------------------------- C6
\* C6: the exported snapshot with any single payload field altered (a
\* percentage, the owner, the initialized flag; a goal's amount, name, target
\* date, locked flag or owner; next_id) and its checksum kept is turned down by
\* import_snapshot with the checksum mismatch.
C6_TamperedSnapshotRejected ==
    (Guarded /\ IsSome(snap)) =>
      \A c \in Principals :
        IF contract = "savings_goals"
        THEN \A t \in TamperedGoals(Unwrap(snap)) :
               LET out == goals_import_snapshot(goals_store, now, TRUE, c,
                                                get_nonce(goals_store, c), t)
               IN  out.panicked /\ out.res = "Snapshot checksum mismatch"
        ELSE \A t \in TamperedSplit(Unwrap(snap)) :
               LET out == split_import_snapshot(split_store, now, TRUE, c,
                                                get_nonce(split_store, c), t)
               IN  out.panicked /\ out.res = "Snapshot checksum mismatch"

\* ------------------------------------------------------------------- C7
\* The last k entries of a sequence.
Latest(seq, k) == SubSeq(seq, Len(seq) - k + 1, Len(seq))

\* C7: the audit log never holds more than MAX_AUDIT_ENTRIES (100) entries; it
\* is the audited attempts in their order, the oldest dropped first, so that
\* after more than 100 of them get_audit_log(0, 200) is exactly the 100 latest.
C7_AuditLogBoundedFifo ==
    LET k == Min(MAX_AUDIT_ENTRIES, Len(audit_hist))
    IN  /\ Len(Store.AUDIT) <= MAX_AUDIT_ENTRIES
        /\ Store.AUDIT = Latest(audit_hist, k)
        /\ get_audit_log(Store, 0, 200) = Latest(audit_hist, k)

\* 102 attempts were audited, the last one a distribute_usdc that returned
\* false: the log holds 100 entries and no longer the first two.
C7_Witness ==
    /\ Len(audit_hist) = MAX_AUDIT_ENTRIES + 2
    /\ last.op = "distribute_usdc"
    /\ last.res = "false"
    /\ Len(get_audit_log(split_store, 0, 200)) = MAX_AUDIT_ENTRIES
    /\ split_store.AUDIT[1] = audit_hist[3]

\* ------------------------------------------------------------------- C8
\* C8: a record's owner and id are those it was created with for as long as
\* it exists, whatever is called, import_snapshot included; the configuration
\* keeps the owner initialize_split gave it.
C8_OwnerAndIdImmutable ==
    [][/\ IsSome(split_store.CONFIG)
            => /\ IsSome(split_store'.CONFIG)
               /\ Unwrap(split_store'.CONFIG).owner = Unwrap(split_store.CONFIG).owner
       /\ \A id \in (DOMAIN goals_store.GOALS) \cap (DOMAIN goals_store'.GOALS) :
            /\ goals_store'.GOALS[id].owner = goals_store.GOALS[id].owner
            /\ goals_store'.GOALS[id].id = id
       /\ \A id \in (DOMAIN bills_store.BILLS) \cap (DOMAIN bills_store'.BILLS) :
            /\ bills_store'.BILLS[id].owner = bills_store.BILLS[id].owner
            /\ bills_store'.BILLS[id].id = id
       /\ \A id \in (DOMAIN policy_store.POLICIES) \cap (DOMAIN policy_store'.POLICIES) :
            /\ policy_store'.POLICIES[id].owner = policy_store.POLICIES[id].owner
            /\ policy_store'.POLICIES[id].id = id]_vars

\* ------------------------------------------------------------------- C9
\* The id counter of the contract running (remittance_split has none).
NextId ==
    CASE contract = "savings_goals" -> goals_store.NEXT_ID
      [] contract = "bill_payments" -> bills_store.NEXT_ID
      [] contract = "insurance" -> policy_store.NEXT_ID
      [] OTHER -> 0

\* C9: NEXT_ID is the number of records ever created, and the k-th record
\* created got id k: ids start at 1, go up by 1 and are never handed out twice,
\* after import_snapshot as before.
C9_NextIdCountsCreated ==
    /\ NextId = Len(created)
    /\ \A k \in 1..Len(created) : created[k] = k

\* ------------------------------------------------------------------ C10
Failed(out) == out.panicked \/ out.res = "false"

\* A call that fails has written neither records nor nonces, in the storage the
\* handler leaves and in the storage the host keeps.
FailedCallWritesNothing(a) ==
    Failed(a.out) => /\ Unaudited(a.out.st) = Unaudited(a.st)
                     /\ Unaudited(After(a)) = Unaudited(a.st)

\* C10: a mutating call that fails, whatever the reason (authorization, nonce,
\* owner, validation, lock, arithmetic, transfer), leaves the record store and
\* the nonce table exactly as they were.
C10_FailedCallLeavesStoreAndNonces ==
    \A i \in DOMAIN Calls : \A a \in Calls[i] : FailedCallWritesNothing(a)

\* distribute_usdc has returned false to the owner of an initialized split: the
\* configuration is in place and the owner's nonce is the 1 initialize_split
\* left.
C10_Witness ==
    /\ last.op = "distribute_usdc"
    /\ last.res = "false"
    /\ IsSome(split_store.CONFIG)
    /\ Unwrap(split_store.CONFIG).owner = last.caller
    /\ get_nonce(split_store, last.caller) = 1
    /\ Len(split_store.AUDIT) = 2

\* ------------------------------------------------------------------ C11
\* The snapshot carries the supported version and the checksum of its payload.
WellFormed(snapshot) ==
    /\ snapshot.version = SNAPSHOT_VERSION
    /\ snapshot.checksum =
         IF contract = "savings_goals"
         THEN compute_goals_checksum(snapshot.version, snapshot.next_id,
                                     snapshot.goals)
         ELSE compute_checksum(snapshot.version, snapshot.config)

\* The storage holds state of an owner other than c: the configuration of
\* remittance_split, a goal of savings_goals.
HeldByOther(st, c) ==
    IF contract = "savings_goals"
    THEN \E id \in DOMAIN st.GOALS : st.GOALS[id].owner # c
    ELSE IsSome(st.CONFIG) /\ Unwrap(st.CONFIG).owner # c

NotOwnerError == "Only the owner can import snapshot"

\* C11: import_snapshot of a well-formed snapshot, authorized and with the
\* caller's current nonce, by a caller who does not own the state held, panics
\* with the not-owner error and replaces nothing; the owner check turns no
\* import down on a contract that holds no state.
C11_ImportByNonOwnerRejected ==
    Guarded =>
      \A i \in DOMAIN Calls : \A a \in Calls[i] :
        (/\ a.op = "import_snapshot"
         /\ a.auth
         /\ a.nonce = Some(get_nonce(a.st, a.caller))
         /\ WellFormed(a.arg))
        => /\ HeldByOther(a.st, a.caller)
                => /\ a.out.panicked
                   /\ a.out.res = NotOwnerError
                   /\ Unaudited(After(a)) = Unaudited(a.st)
           /\ ~HeldByOther(a.st, a.caller) => a.out.res # NotOwnerError

\* ------------------------------------------------------------------ C12
\* import_snapshot of the contract running.
ImportSnapshot(st, auth, caller, nonce, snapshot) ==
    IF contract = "savings_goals"
    THEN goals_import_snapshot(st, now, auth, caller, nonce, snapshot)
    ELSE split_import_snapshot(st, now, auth, caller, nonce, snapshot)

\* The checksum import_snapshot recomputes from the snapshot.
Recomputed(snapshot) ==
    IF contract = "savings_goals"
    THEN compute_goals_checksum(snapshot.version, snapshot.next_id, snapshot.goals)
    ELSE compute_checksum(snapshot.version, snapshot.config)

\* The snapshots import_snapshot is called with in the current state.
Snapshots == IF contract = "savings_goals" THEN GoalSnapshots ELSE SplitSnapshots

\* Versions other than SNAPSHOT_VERSION.
OtherVersions == {0, 2, 3}

\* The snapshots with the version set to an unsupported one, and the version-1
\* snapshots with a checksum field other than the recomputed one.
WrongVersion == {[s EXCEPT !.version = v] : s \in Snapshots, v \in OtherVersions}

WrongChecksum ==
    {t \in UNION {{[s EXCEPT !.version = SNAPSHOT_VERSION, !.checksum = k] :
                      k \in {0, s.checksum, s.checksum + 1}} : s \in Snapshots} :
       t.checksum # Recomputed(t)}

\* The call panics with msg when it passes authorization and the nonce check,
\* panics in any case, and has written nothing.
RejectedWith(st, auth, c, n, snapshot, msg) ==
    LET out == ImportSnapshot(st, auth, c, n, snapshot)
    IN  /\ out.panicked
        /\ (auth /\ n = get_nonce(st, c)) => out.res = msg
        /\ Unaudited(out.st) = Unaudited(st)
        /\ HostCommit(st, out) = st

\* C12: import_snapshot turns down every snapshot whose version is not 1 with
\* "Unsupported snapshot version" and every version-1 snapshot whose checksum
\* field is not the recomputed checksum with "Snapshot checksum mismatch";
\* records, nonces and audit log are as before the call.
C12_VersionAndChecksumChecked ==
    Guarded =>
      \A c \in Principals : \A auth \in BOOLEAN : \A n \in AttemptNonces(Store) :
        /\ \A s \in WrongVersion :
             RejectedWith(Store, auth, c, n, s, "Unsupported snapshot version")
        /\ \A s \in WrongChecksum :
             RejectedWith(Store, auth, c, n, s, "Snapshot checksum mismatch")

\* The owner of an initialized split, having exported it, presents it under
\* version 2 and under a checksum one too high, with the nonce the contract
\* expects.
C12_Witness ==
    /\ contract = "remittance_split"
    /\ IsSome(snap)
    /\ IsSome(split_store.CONFIG)
    /\ LET owner == Unwrap(split_store.CONFIG).owner
           n == get_nonce(split_store, owner)
           x == Unwrap(snap)
       IN  /\ n > 0
           /\ [x EXCEPT !.version = 2] \in WrongVersion
           /\ [x EXCEPT !.checksum = @ + 1] \in WrongChecksum
           /\ ImportSnapshot(split_store, TRUE, owner, n,
                             [x EXCEPT !.version = 2]).res
                = "Unsupported snapshot version"
           /\ ImportSnapshot(split_store, TRUE, owner, n,
                             [x EXCEPT !.checksum = @ + 1]).res
                = "Snapshot checksum mismatch"

\* ------------------------------------------------------------------ C13
\* The goal a snapshot's list holds under id: the last one listed, as the list
\* is written into the map in order.
GoalOfSnapshot(snapshot, id) ==
    LET at == {i \in 1..Len(snapshot.goals) : snapshot.goals[i].id = id}
    IN  IF at = {} THEN None
        ELSE Some(snapshot.goals[CHOOSE i \in at : \A j \in at : j <= i])

\* The ids looked up: those of the goals held, of the snapshot, and unused ones.
LookupIds == 0..(MaxId + 3)

\* The managed state after the call is the snapshot's payload and nothing else.
HoldsPayload(a) ==
    IF contract = "savings_goals"
    THEN /\ \A id \in LookupIds \cup DOMAIN a.st.GOALS \cup DOMAIN After(a).GOALS :
              get_goal(After(a), id) = GoalOfSnapshot(a.arg, id)
         /\ After(a).NEXT_ID = a.arg.next_id
    ELSE /\ get_config(After(a)) = Some(a.arg.config)
         /\ get_split(After(a)) = Percents(a.arg.config)

\* The caller's nonce moved by one, no other nonce moved, and the log is the
\* log before the call followed by the entry of the successful import.
NonceAndAuditOfImport(a) ==
    /\ \A p \in Principals :
         get_nonce(After(a), p) =
           get_nonce(a.st, p) + (IF p = a.caller THEN 1 ELSE 0)
    /\ After(a).AUDIT =
         Append(IF Len(a.st.AUDIT) >= MAX_AUDIT_ENTRIES
                THEN SubSeq(a.st.AUDIT, 2, Len(a.st.AUDIT)) ELSE a.st.AUDIT,
                AuditEntry("import", a.caller, now, TRUE))

\* A snapshot listing two goals under one id.
TwiceListed ==
    Crafted(1, << SavingsGoal(1, "alice", "school", 100, 0, 0, FALSE),
                  SavingsGoal(1, "bob", "school", 100, 60, 0, TRUE) >>)

\* C13: an import_snapshot that succeeds leaves exactly the snapshot's payload
\* as managed state (savings_goals: get_goal answers the snapshot's goal for
\* every id the snapshot lists and None for every other id, NEXT_ID is the
\* snapshot's next_id; remittance_split: CONFIG is the snapshot's config), the
\* caller's nonce one higher and one successful "import" entry appended to the
\* audit log.
C13_ImportReplacesWholesale ==
    Guarded =>
      /\ \A i \in DOMAIN Calls : \A a \in Calls[i] :
           (a.op = "import_snapshot" /\ Committed(a.out))
           => HoldsPayload(a) /\ NonceAndAuditOfImport(a)
      /\ contract = "savings_goals" =>
           \A c \in Principals :
             LET a == Attempt("import_snapshot", c, Some(get_nonce(Store, c)), TRUE,
                              TwiceListed, Store,
                              ImportSnapshot(Store, TRUE, c, get_nonce(Store, c),
                                             TwiceListed))
             IN  Committed(a.out) /\ HoldsPayload(a) /\ NonceAndAuditOfImport(a)

\* savings_goals held a goal under id 1 that the imported snapshot does not
\* list: the import succeeded, the goal is gone and NEXT_ID is the snapshot's.
C13_Witness ==
    /\ contract = "savings_goals"
    /\ last.op = "import_snapshot"
    /\ last.res = "ok"
    /\ last.arg = Crafted(1, <<>>)
    /\ Len(created) = 1
    /\ get_goal(goals_store, 1) = None
    /\ goals_store.NEXT_ID = 1
    /\ get_nonce(goals_store, last.caller) = 1
    /\ goals_store.AUDIT[Len(goals_store.AUDIT)]
         = AuditEntry("import", last.caller, now, TRUE)

\* ------------------------------------------------------------------ C14
\* What export_snapshot of remittance_split answers a caller: a snapshot to the
\* owner of the configuration alone, a panic to any other caller while a
\* configuration is stored, None while none is; the snapshot has version 1, the
\* stored configuration and the checksum of that configuration.
ExportAnswer(a) ==
    /\ IsSome(a.out.ret) => /\ a.auth
                            /\ IsSome(a.st.CONFIG)
                            /\ a.caller = Unwrap(a.st.CONFIG).owner
                            /\ ~a.out.panicked
    /\ (IsSome(a.st.CONFIG) /\ a.caller # Unwrap(a.st.CONFIG).owner)
         => /\ a.out.panicked
            /\ a.auth => a.out.res = "Only the owner can export snapshot"
    /\ (IsSome(a.st.CONFIG) /\ a.caller = Unwrap(a.st.CONFIG).owner /\ a.auth)
         => a.out.ret =
              Some(ExportSnapshot(1, compute_checksum(1, Unwrap(a.st.CONFIG)),
                                  Unwrap(a.st.CONFIG)))
    /\ (~IsSome(a.st.CONFIG) /\ a.auth) => (~a.out.panicked /\ a.out.ret = None)

\* The call wrote nothing: records, nonces and audit log are those at entry, in
\* the storage the handler leaves and in the storage the host keeps.
WritesNothing(a) == a.out.st = a.st /\ After(a) = a.st

\* C14: export_snapshot of remittance_split returns a snapshot to the owner of
\* the configuration only and panics for every other caller; the snapshot has
\* version 1 and the checksum of the current configuration; export_snapshot
\* changes neither records nor nonces nor the audit log, and the answers of
\* get_nonce, get_config, get_split and get_audit_log are the same before and
\* after it.
C14_ExportOwnerOnlyAndReadOnly ==
    contract = "remittance_split" =>
      \A a \in Calls[5] :
        /\ a.op = "export_snapshot"
        /\ ExportAnswer(a)
        /\ WritesNothing(a)
        /\ get_config(After(a)) = get_config(a.st)
        /\ get_split(After(a)) = get_split(a.st)
        /\ get_audit_log(After(a), 0, MAX_AUDIT_ENTRIES)
             = get_audit_log(a.st, 0, MAX_AUDIT_ENTRIES)
        /\ \A p \in Principals : get_nonce(After(a), p) = get_nonce(a.st, p)

\* The owner of an initialized split has been handed a snapshot of version 1
\* with the checksum of the stored configuration, while the other principal's
\* export_snapshot panics; storage is as initialize_split left it.
C14_Witness ==
    /\ contract = "remittance_split"
    /\ last.op = "export_snapshot"
    /\ IsSome(last.ret)
    /\ Unwrap(last.ret).version = 1
    /\ Unwrap(last.ret).config = Unwrap(split_store.CONFIG)
    /\ Unwrap(last.ret).checksum = compute_checksum(1, Unwrap(split_store.CONFIG))
    /\ last.caller = Unwrap(split_store.CONFIG).owner
    /\ Len(split_store.AUDIT) = 1
    /\ get_nonce(split_store, last.caller) = 1
    /\ \E p \in Principals \ {last.caller} :
         split_export_snapshot(split_store, TRUE, p).res
           = "Only the owner can export snapshot"

\* ------------------------------------------------------------------ C15
\* The call carries a nonce other than the one stored for its caller.
WrongNonce(a) == a.nonce # Some(get_nonce(a.st, a.caller))

\* C15: in every nonce-bearing operation the nonce is checked after the
\* authorization and before any validation of the arguments: an unauthorized
\* call fails on the authorization, and an authorized call with a wrong nonce
\* panics with "Invalid nonce" whatever its other arguments are.
C15_NonceCheckedBeforeValidation ==
    Guarded =>
      \A i \in DOMAIN Calls : \A a \in Calls[i] :
        a.op \in NonceBearing =>
          /\ ~a.auth => (a.out.panicked /\ a.out.res = "Unauthorized")
          /\ (a.auth /\ WrongNonce(a))
               => (a.out.panicked /\ a.out.res = "Invalid nonce")

\* ------------------------------------------------------------------ C16
\* The tag an operation's audit entries carry.
Tag(op) ==
    CASE op = "initialize_split" -> "init"
      [] op = "update_split" -> "update"
      [] op = "distribute_usdc" -> "distrib"
      [] op = "import_snapshot" -> "import"
      [] op = "create_goal" -> "create"
      [] op = "add_to_goal" -> "add"
      [] op = "withdraw_from_goal" -> "withdraw"
      [] op = "lock_goal" -> "lock"
      [] op = "unlock_goal" -> "unlock"

\* C16: every mutating call that passes authorization leaves exactly one more
\* entry in the audit log, with the operation's tag, the caller and a success
\* flag that is true exactly when the call committed, whether the call is
\* turned down by the nonce check, by the validation of its arguments, or
\* commits.
C16_EveryAuthorizedAttemptAudited ==
    Guarded =>
      \A i \in DOMAIN Calls : \A a \in Calls[i] :
        (a.op \in Mutating /\ a.auth)
        => After(a).AUDIT =
             Append(a.st.AUDIT,
                    AuditEntry(Tag(a.op), a.caller, now, Committed(a.out)))

\* ------------------------------------------------------------------ C17
\* The amounts withdrawn: below, at and above the balances the goals reach.
WithdrawAmounts == {1, 40, 60, 61, 100, 200}

\* The owner's withdrawal of a positive amount from a locked goal panics on the
\* lock and leaves the goal as it is.
LockedWithdrawalRejected(st, id, amount) ==
    LET out == withdraw_from_goal(st, now, TRUE, st.GOALS[id].owner, id, amount)
    IN  /\ out.panicked
        /\ out.res = "Cannot withdraw from a locked goal"
        /\ Unaudited(out.st) = Unaudited(st)
        /\ get_goal(HostCommit(st, out), id) = get_goal(st, id)

\* Once the owner has unlocked the goal, the withdrawal of an amount within the
\* balance returns the balance less the amount, stores it, and changes no
\* other field and no other goal.
UnlockedWithdrawalSucceeds(st, id, amount) ==
    LET owner == st.GOALS[id].owner
        unlocked == unlock_goal(st, now, TRUE, owner, id)
        st1 == HostCommit(st, unlocked)
        out == withdraw_from_goal(st1, now, TRUE, owner, id, amount)
        st2 == HostCommit(st1, out)
    IN  /\ Committed(unlocked)
        /\ amount <= st.GOALS[id].current_amount
             => /\ Committed(out)
                /\ out.ret = st.GOALS[id].current_amount - amount
                /\ st2.GOALS =
                     [st.GOALS EXCEPT ![id].locked = FALSE,
                                      ![id].current_amount = @ - amount]

\* C17: withdraw_from_goal by the owner with a positive amount on a locked goal
\* panics with "Cannot withdraw from a locked goal" whatever the balance and
\* leaves the balance unchanged; after unlock_goal by the owner has succeeded,
\* the same withdrawal, when the amount is within the balance, succeeds and
\* lowers the balance by exactly the amount.
C17_LockedGoalRefusesWithdrawal ==
    contract = "savings_goals" =>
      \A id \in DOMAIN goals_store.GOALS : \A amount \in WithdrawAmounts :
        goals_store.GOALS[id].locked
        => /\ LockedWithdrawalRejected(goals_store, id, amount)
           /\ UnlockedWithdrawalSucceeds(goals_store, id, amount)

\* A locked goal holding 60 refused its owner's withdrawal of 40; the owner
\* has unlocked it since, and the withdrawal of 40 now returns 20.
C17_Witness ==
    /\ contract = "savings_goals"
    /\ last.op = "unlock_goal"
    /\ last.res = "ok"
    /\ MapHas(goals_store.GOALS, 1)
    /\ goals_store.GOALS[1].owner = last.caller
    /\ goals_store.GOALS[1].current_amount = 60
    /\ ~goals_store.GOALS[1].locked
    /\ LockedWithdrawalRejected(
         [goals_store EXCEPT !.GOALS[1].locked = TRUE], 1, 40)
    /\ \E a \in Calls[3] :
         /\ a.op = "withdraw_from_goal"
         /\ a.auth
         /\ a.caller = last.caller
         /\ a.arg = <<1, 40>>
         /\ Committed(a.out)
         /\ a.out.ret = 20
         /\ After(a).GOALS[1].current_amount = 20

\* ------------------------------------------------------------------ C18
\* The deposit published GoalCompleted for the goal.
EmitsGoalCompleted(st, caller, goal_id, amount) ==
    \E i \in DOMAIN add_to_goal_events(st, now, TRUE, caller, goal_id, amount) :
      add_to_goal_events(st, now, TRUE, caller, goal_id, amount)[i]
        = Event("GoalCompleted", <<goal_id, st.GOALS[goal_id].owner>>)

\* is_goal_completed answers true for the goals that exist with a balance at
\* or above their target, and for no other id.
CompletedIffAtTarget(st) ==
    \A id \in LookupIds \cup DOMAIN st.GOALS :
      is_goal_completed(st, id) =
        (/\ IsSome(get_goal(st, id))
         /\ Unwrap(get_goal(st, id)).current_amount
              >= Unwrap(get_goal(st, id)).target_amount)

\* The amounts deposited.
Deposits == {1, 40, 60, 100}

\* A deposit by the owner publishes GoalCompleted exactly when the balance it
\* leaves is at or above the target.
CompletionEventIffAtTarget(st) ==
    \A id \in DOMAIN st.GOALS : \A amount \in Deposits :
      LET owner == st.GOALS[id].owner
          out == add_to_goal(st, now, TRUE, owner, id, amount)
      IN  /\ Committed(out)
          /\ out.ret = st.GOALS[id].current_amount + amount
          /\ EmitsGoalCompleted(st, owner, id, amount)
               <=> out.ret >= st.GOALS[id].target_amount
          /\ EmitsGoalCompleted(st, owner, id, amount)
               <=> is_goal_completed(HostCommit(st, out), id)

\* A goal of target 100 and balance 0 is not completed after a deposit of 60,
\* which publishes no GoalCompleted, and completed after a further 40, which
\* publishes it.
SixtyThenForty(st) ==
    \A id \in DOMAIN st.GOALS :
      (st.GOALS[id].target_amount = 100 /\ st.GOALS[id].current_amount = 0)
      => LET owner == st.GOALS[id].owner
             st1 == HostCommit(st, add_to_goal(st, now, TRUE, owner, id, 60))
             st2 == HostCommit(st1, add_to_goal(st1, now, TRUE, owner, id, 40))
         IN  /\ ~is_goal_completed(st, id)
             /\ ~is_goal_completed(st1, id)
             /\ ~EmitsGoalCompleted(st, owner, id, 60)
             /\ is_goal_completed(st2, id)
             /\ EmitsGoalCompleted(st1, owner, id, 40)

\* C18: is_goal_completed(id) is true exactly when the goal exists and its
\* current_amount is at least its target_amount; add_to_goal publishes
\* GoalCompleted exactly when the balance after the deposit is at least the
\* target; a goal with target 100 is not completed after a deposit of 60 and
\* completed after a further deposit of 40.
C18_CompletedExactlyAtTarget ==
    contract = "savings_goals" =>
      /\ CompletedIffAtTarget(goals_store)
      /\ CompletionEventIffAtTarget(goals_store)
      /\ SixtyThenForty(goals_store)
      /\ \A a \in Calls[2] :
           ~Committed(a.out) =>
             add_to_goal_events(a.st, now, a.auth, a.caller, a.arg[1], a.arg[2]) = <<>>

\* The owner of a goal with target 100 has deposited 60: the goal is not
\* completed; the deposit of a further 40 commits, publishes GoalCompleted
\* and leaves the goal completed.
C18_Witness ==
    /\ contract = "savings_goals"
    /\ last.op = "add_to_goal"
    /\ last.res = "ok"
    /\ last.arg = <<1, 60>>
    /\ goals_store.GOALS[1].target_amount = 100
    /\ goals_store.GOALS[1].current_amount = 60
    /\ ~is_goal_completed(goals_store, 1)
    /\ \E a \in Calls[2] :
         /\ a.caller = last.caller
         /\ a.auth
         /\ a.arg = <<1, 40>>
         /\ Committed(a.out)
         /\ a.out.ret = 100
         /\ is_goal_completed(After(a), 1)
         /\ EmitsGoalCompleted(goals_store, last.caller, 1, 40)

\* ------------------------------------------------------------------ C19
\* The from_index and limit values asked: around 0, around MAX_AUDIT_ENTRIES,
\* and at the top of u32.
AuditArgs == {0, 1, 2, 50, 99, 100, 101, 200, U32_MAX - 1, U32_MAX}

\* The entries at indices from_index .. hi - 1 of the log, in the order they
\* were appended, hi being the smaller of from_index + min(limit, 100) and the
\* length; audit_hist holds every appended entry, the log its last ones.
EntriesAsked(st, from_index, limit) ==
    LET len == Len(st.AUDIT)
        evicted == Len(audit_hist) - len
    IN  IF from_index >= len THEN <<>>
        ELSE LET hi == Min(from_index + Min(limit, 100), len)
             IN  [k \in 1..(hi - from_index) |-> audit_hist[evicted + from_index + k]]

\* C19: get_audit_log(from_index, limit) returns the entries at indices
\* from_index .. min(from_index + min(limit, 100), length) - 1 in insertion
\* order, returns the empty list when from_index >= length, and panics for no
\* from_index and limit.
C19_AuditLogPage ==
    \A from_index \in AuditArgs : \A limit \in AuditArgs :
      /\ \A out \in get_audit_log_outcomes(Store, from_index, limit) :
           /\ ~out.panicked
           /\ out.ret = EntriesAsked(Store, from_index, limit)
           /\ out.st = Store
      /\ get_audit_log(Store, from_index, limit)
           = EntriesAsked(Store, from_index, limit)
      /\ from_index >= Len(Store.AUDIT)
           => get_audit_log(Store, from_index, limit) = <<>>

\* 101 entries were appended, the log holds the last 100: the page from index
\* 98 with limit 200 is the last two entries appended, the page from index 100
\* is empty, and the page from index 0 with limit 1 is the second entry
\* appended.
C19_Witness ==
    /\ Len(audit_hist) = MAX_AUDIT_ENTRIES + 1
    /\ Len(Store.AUDIT) = MAX_AUDIT_ENTRIES
    /\ get_audit_log(Store, 98, 200) = <<audit_hist[100], audit_hist[101]>>
    /\ get_audit_log(Store, 100, 200) = <<>>
    /\ get_audit_log(Store, 0, 1) = <<audit_hist[2]>>
    /\ get_audit_log_outcomes(Store, U32_MAX, U32_MAX) = {Returns(Store, "ok", <<>>)}

\* ------------------------------------------------------------------ C20
\* The nonces with which calls of p have committed, whatever the operation.
UsedBy(p) == {u[2] : u \in {v \in used : v[1] = p}}

\* A call of one of the four operations commits only with the nonce after the
\* last one its caller committed with, under any of the four, and then moves
\* the caller's counter to the next; with a nonce that has committed before it
\* is turned down, by a panic or by distribute_usdc returning false, and
\* writes neither records nor nonces.
SharedCounterStep(a) ==
    /\ a.op \in NonceBearing
    /\ Committed(a.out)
         => /\ a.nonce = Some(Cardinality(UsedBy(a.caller)))
            /\ get_nonce(After(a), a.caller) = Unwrap(a.nonce) + 1
    /\ Unwrap(a.nonce) \in UsedBy(a.caller)
         => /\ Failed(a.out)
            /\ Unaudited(After(a)) = Unaudited(a.st)

\* C20: remittance_split keeps one counter per principal for initialize_split,
\* update_split, distribute_usdc and import_snapshot together: the nonces p
\* has committed with are 0 .. n, get_nonce(p) is n + 1, every call by p of
\* any of the four with a nonce up to n is rejected, and a call by p commits
\* only with n + 1.
C20_OneCounterForFourOperations ==
    contract = "remittance_split" =>
      /\ \A p \in Principals : UsedBy(p) = 0..(get_nonce(split_store, p) - 1)
      /\ \A i \in 1..4 : \A a \in Calls[i] : SharedCounterStep(a)

\* alice initialized the split with nonce 0 and updated it with nonce 1: her
\* distribute_usdc and import_snapshot with nonce 1 panic on the nonce, and her
\* distribute_usdc with nonce 2 commits and leaves her counter at 3.
C20_Witness ==
    /\ contract = "remittance_split"
    /\ last.op = "update_split"
    /\ last.res = "ok"
    /\ last.nonce = Some(1)
    /\ UsedBy(last.caller) = {0, 1}
    /\ \A a \in Calls[3] \cup Calls[4] :
         (a.auth /\ a.caller = last.caller /\ a.nonce = Some(1))
         => (a.op = "distribute_usdc" /\ a.arg <= 0) \/ a.out.res = "Invalid nonce"
    /\ \E a \in Calls[3] :
         /\ a.caller = last.caller
         /\ a.nonce = Some(2)
         /\ a.arg = 999
         /\ Committed(a.out)
         /\ get_nonce(After(a), a.caller) = 3

\* ------------------------------------------------------------------ C21
\* The percentages are each within 0..100 and add up to 100 as integers.
SumsTo100(t) ==
    /\ \A i \in 1..4 : t[i] \in 0..100
    /\ t[1] + t[2] + t[3] + t[4] = 100

\* Percentages a caller may pass besides PercentTuples: sums below and above
\* 100, and values at the top of u32.
WidePercents ==
    {<<100, 0, 0, 0>>, <<0, 0, 0, 0>>, <<25, 25, 25, 24>>, <<101, 0, 0, 0>>,
     <<U32_MAX, 1, 50, 50>>, <<U32_MAX, U32_MAX, 2, 100>>, <<U32_MAX, 0, 0, 0>>}

\* The snapshot a caller builds for the percentages t, with their checksum.
SnapshotOf(owner, t) ==
    ExportSnapshot(SNAPSHOT_VERSION,
                   compute_checksum(SNAPSHOT_VERSION, SplitConfig(owner, t, TRUE)),
                   SplitConfig(owner, t, TRUE))

\* What initialize_split, update_split and import_snapshot answer caller c,
\* authorized and with its current nonce, for the percentages t.
PercentCalls(overflow_checks, st, c, t) ==
    {initialize_split_built(overflow_checks, st, now, TRUE, c, get_nonce(st, c), t),
     update_split_built(overflow_checks, st, now, TRUE, c, get_nonce(st, c), t),
     split_import_snapshot_built(overflow_checks, st, now, TRUE, c,
                                 get_nonce(st, c), SnapshotOf(c, t))}

\* C21: a stored configuration of remittance_split has percentages that add up
\* to 100 as mathematical integers, each within 0..100; initialize_split,
\* update_split and import_snapshot turn down every tuple that does not add up
\* to exactly 100, whatever the build.
C21_StoredPercentagesSumTo100 ==
    contract = "remittance_split" =>
      /\ IsSome(split_store.CONFIG) => SumsTo100(Percents(Unwrap(split_store.CONFIG)))
      /\ \A overflow_checks \in BOOLEAN : \A c \in Principals :
         \A t \in PercentTuples \cup WidePercents :
           \A out \in PercentCalls(overflow_checks, split_store, c, t) :
             /\ ~SumsTo100(t) => ~Committed(out)
             /\ Committed(out) => SumsTo100(Percents(Unwrap(out.st.CONFIG)))

\* ------------------------------------------------------------------ C22
\* The total a build computes for the percentages is their sum as integers.
ExactPercentSum(overflow_checks, t) ==
    IsSome(PercentSum(overflow_checks, t))
    => /\ t[1] <= U32_MAX - t[2]
       /\ t[1] + t[2] <= U32_MAX - t[3]
       /\ t[1] + t[2] + t[3] <= U32_MAX - t[4]
       /\ Unwrap(PercentSum(overflow_checks, t)) = t[1] + t[2] + t[3] + t[4]

\* Due dates of the bills created: now, and the top of u64.
DueDates == {0, U64_MODULUS - 1}

\* pay_bill of a recurring bill that commits stores a next bill due
\* frequency_days * 86400 seconds after the bill paid.
ExactNextDueDate(overflow_checks, st, c, due_date) ==
    LET made == create_bill(st, TRUE, c, "rent", 75, due_date, TRUE, 30)
        paid == pay_bill_built(overflow_checks, made.st, TRUE, c, made.ret)
    IN  (Committed(made) /\ Committed(paid))
        => /\ due_date <= (U64_MODULUS - 1) - 30 * 86400
           /\ paid.st.BILLS[paid.st.NEXT_ID].due_date = due_date + 30 * 86400

\* The amounts add_to_goal and withdraw_from_goal return are the old balance
\* plus and minus the amount.
ExactBalance(a) ==
    Committed(a.out) =>
      a.out.ret = a.st.GOALS[a.arg[1]].current_amount
                    + (IF a.op = "add_to_goal" THEN a.arg[2] ELSE 0 - a.arg[2])

\* C22: every arithmetic step of a public operation yields the exact result or
\* aborts the call, whatever the build: the u32 sum of the percentages in
\* initialize_split, update_split and import_snapshot, the shares of
\* calculate_split, the balances of add_to_goal and withdraw_from_goal, the
\* next due date of pay_bill.
C22_ArithmeticExactOrAborts ==
    \A overflow_checks \in BOOLEAN :
      /\ contract = "remittance_split" =>
           /\ \A t \in PercentTuples \cup WidePercents :
                ExactPercentSum(overflow_checks, t)
           /\ \A total_amount \in CalcTotals :
                LET amounts == calculate_split(get_split(split_store), total_amount)
                IN  IsSome(amounts) => Sum4(Unwrap(amounts)) = total_amount
      /\ contract = "savings_goals" =>
           \A a \in Calls[2] \cup Calls[3] : ExactBalance(a)
      /\ contract = "bill_payments" =>
           \A c \in Principals : \A due_date \in DueDates :
             ExactNextDueDate(overflow_checks, bills_store, c, due_date)

\* ------------------------------------------------------------------ C23
\* The top of u64.
TopNonce == U64_MODULUS - 1

\* What the nonce-bearing operations of the contract running answer p,
\* authorized and with the nonce n.
NonceCalls(st, p, n) ==
    IF contract = "savings_goals"
    THEN {goals_import_snapshot(st, now, TRUE, p, n, x) : x \in GoalSnapshots}
    ELSE {initialize_split(st, now, TRUE, p, n, t) : t \in PercentTuples}
         \cup {update_split(st, now, TRUE, p, n, t) : t \in PercentTuples}
         \cup {[k \in {"st", "res", "panicked", "ret"} |->
                  distribute_usdc(st, token, now, TRUE, p, n, total)[k]] :
                 total \in TotalAmounts}
         \cup {split_import_snapshot(st, now, TRUE, p, n, x) : x \in SplitSnapshots}

\* The messages of the panics that come before the counter is advanced, and of
\* the panic of the advance.
BeforeAdvance ==
    {"Split already initialized", "Percentages must sum to 100",
     "Split not initialized", "Only the owner can update the split configuration",
     "overflow in split calculation", "transfer failed",
     "Unsupported snapshot version", "Snapshot checksum mismatch",
     "Only the owner can import snapshot",
     "Invalid snapshot: percentages must sum to 100"}

\* C23: for a principal whose stored nonce is the top of u64, increment_nonce
\* panics: every nonce-bearing call that gets as far as the advance aborts with
\* "nonce overflow" and none commits; a stored nonce is never above the top,
\* and stays above every nonce its principal has committed with, so it never
\* wraps to 0 and never decreases.
C23_NonceOverflowAborts ==
    \A p \in Principals :
      /\ get_nonce(Store, p) <= TopNonce
      /\ \A u \in used : u[1] = p => get_nonce(Store, p) > u[2]
      /\ get_nonce(Store, p) = TopNonce
           => /\ increment_nonce(Store, p) = None
              /\ \A out \in NonceCalls(Store, p, TopNonce) :
                   \/ out.panicked /\ out.res \in BeforeAdvance \cup {"nonce overflow"}
                   \/ ~out.panicked /\ out.res = "false"
      /\ get_nonce(Store, p) < TopNonce
           => get_nonce(Unwrap(increment_nonce(Store, p)), p) = get_nonce(Store, p) + 1

\* alice's last call committed with the nonce one below the top and left her
\* counter at the top: her next update_split, with that nonce and percentages
\* that pass validation, aborts with "nonce overflow".
C23_Witness ==
    /\ contract = "remittance_split"
    /\ last.caller = "alice"
    /\ last.res = "ok"
    /\ last.nonce = Some(TopNonce - 1)
    /\ get_nonce(split_store, "alice") = TopNonce
    /\ Unwrap(split_store.CONFIG).owner = "alice"
    /\ update_split(split_store, now, TRUE, "alice", TopNonce, <<50, 30, 15, 5>>).res
         = "nonce overflow"

\* ------------------------------------------------------------------ C24
\* The call failed and the record is as it was, in the storage the handler
\* leaves and in the storage the host keeps.
RefusedAt(st, out, table, key) ==
    /\ Failed(out)
    /\ out.st[table][key] = st[table][key]
    /\ HostCommit(st, out)[table][key] = st[table][key]

\* update_split by c, who does not own the configuration stored.
StrangerUpdateRefused(c) ==
    IsSome(split_store.CONFIG) /\ Unwrap(split_store.CONFIG).owner # c
      => \A auth \in BOOLEAN, n \in NonceChoices(split_store, c), t \in PercentTuples :
           \A overflow_checks \in BOOLEAN :
             LET out == update_split_built(overflow_checks, split_store, now, auth, c, n, t)
             IN  /\ Failed(out)
                 /\ out.st.CONFIG = split_store.CONFIG
                 /\ out.st.SPLIT = split_store.SPLIT
                 /\ HostCommit(split_store, out) = split_store

\* The four goal operations by c on the goals c does not own.
StrangerGoalCallsRefused(c) ==
    \A id \in DOMAIN goals_store.GOALS :
      goals_store.GOALS[id].owner # c
        => \A auth \in BOOLEAN :
             /\ \A amount \in DepositAmounts \cup WithdrawAmounts :
                  /\ RefusedAt(goals_store,
                               add_to_goal(goals_store, now, auth, c, id, amount),
                               "GOALS", id)
                  /\ RefusedAt(goals_store,
                               withdraw_from_goal(goals_store, now, auth, c, id, amount),
                               "GOALS", id)
             /\ RefusedAt(goals_store, lock_goal(goals_store, now, auth, c, id),
                          "GOALS", id)
             /\ RefusedAt(goals_store, unlock_goal(goals_store, now, auth, c, id),
                          "GOALS", id)

\* pay_bill by c on the bills c does not own.
StrangerPayBillRefused(c) ==
    \A id \in DOMAIN bills_store.BILLS :
      bills_store.BILLS[id].owner # c
        => \A auth \in BOOLEAN, overflow_checks \in BOOLEAN :
             /\ RefusedAt(bills_store,
                          pay_bill_built(overflow_checks, bills_store, auth, c, id),
                          "BILLS", id)
             /\ pay_bill_built(overflow_checks, bills_store, auth, c, id).st
                  = bills_store

\* pay_premium and deactivate_policy by c on the policies c does not own.
StrangerPolicyCallsRefused(c) ==
    \A id \in DOMAIN policy_store.POLICIES :
      policy_store.POLICIES[id].owner # c
        => \A auth \in BOOLEAN :
             /\ RefusedAt(policy_store, pay_premium(policy_store, now, auth, c, id),
                          "POLICIES", id)
             /\ RefusedAt(policy_store, deactivate_policy(policy_store, auth, c, id),
                          "POLICIES", id)

\* C24: update_split, add_to_goal, withdraw_from_goal, lock_goal, unlock_goal,
\* pay_bill, pay_premium and deactivate_policy called by a caller who is not
\* the owner of the record fail and leave the record unchanged.
C24_OwnerGatedMutation ==
    \A c \in Principals :
      CASE contract = "remittance_split" -> StrangerUpdateRefused(c)
        [] contract = "savings_goals" -> StrangerGoalCallsRefused(c)
        [] contract = "bill_payments" -> StrangerPayBillRefused(c)
        [] contract = "insurance" -> StrangerPolicyCallsRefused(c)

\* alice holds an active policy whose premium she has just paid; bob, with his
\* own authorization, is refused its deactivation and the payment of its
\* premium.
C24_Witness ==
    /\ contract = "insurance"
    /\ last.op = "pay_premium"
    /\ last.caller = "alice"
    /\ last.res = "ok"
    /\ \E id \in DOMAIN policy_store.POLICIES :
         /\ policy_store.POLICIES[id].owner = "alice"
         /\ policy_store.POLICIES[id].active
         /\ deactivate_policy(policy_store, TRUE, "bob", id).res
              = "Only the policy owner can deactivate this policy"
         /\ pay_premium(policy_store, now, TRUE, "bob", id).res
              = "Only the policy owner can pay premiums"

\* ------------------------------------------------------------------ C25
PercentFields ==
    {"spending_percent", "savings_percent", "bills_percent", "insurance_percent"}

\* The configurations that differ from config by two percentages of different
\* values exchanged.
SwappedConfigs(config) ==
    UNION {{[config EXCEPT ![f] = config[g], ![g] = config[f]] :
              g \in {h \in PercentFields : config[h] # config[f]}} :
             f \in PercentFields}

\* The goal lists that differ from goals by two amounts of different values
\* exchanged: the target and the balance of one goal, or the targets of two
\* goals.
SwappedGoals(goals) ==
    {[goals EXCEPT ![i].target_amount = goals[i].current_amount,
                   ![i].current_amount = goals[i].target_amount] :
       i \in {k \in DOMAIN goals : goals[k].target_amount # goals[k].current_amount}}
    \cup UNION {{[goals EXCEPT ![i].target_amount = goals[j].target_amount,
                               ![j].target_amount = goals[i].target_amount] :
                   j \in {k \in DOMAIN goals :
                            goals[k].target_amount # goals[i].target_amount}} :
                  i \in DOMAIN goals}

\* C25 (as amended): the snapshot checksum is not order-sensitive: two payloads
\* of the same version that differ only by exchanging the values of two of the
\* numeric fields the checksum covers (two percentages; a goal's target_amount
\* and current_amount, or the target_amount of two goals) have the same
\* checksum.
C25_ChecksumIgnoresOrder ==
    Guarded =>
      IF contract = "savings_goals"
      THEN \A x \in GoalSnapshots : \A goals \in SwappedGoals(x.goals) :
             compute_goals_checksum(x.version, x.next_id, goals)
               = compute_goals_checksum(x.version, x.next_id, x.goals)
      ELSE \A x \in SplitSnapshots : \A config \in SwappedConfigs(x.config) :
             compute_checksum(x.version, config)
               = compute_checksum(x.version, x.config)

\* alice holds the snapshot she has just exported of the split 50/30/15/5; the
\* payload with spending_percent and savings_percent exchanged, 30/50/15/5, has
\* the checksum of the snapshot.
C25_Witness ==
    /\ contract = "remittance_split"
    /\ last.op = "export_snapshot"
    /\ last.res = "ok"
    /\ IsSome(snap)
    /\ Percents(Unwrap(snap).config) = <<50, 30, 15, 5>>
    /\ \E config \in SwappedConfigs(Unwrap(snap).config) :
         /\ Percents(config) = <<30, 50, 15, 5>>
         /\ compute_checksum(Unwrap(snap).version, config) = Unwrap(snap).checksum

\* C25 as stated: two payloads of the same version that differ only by
\* exchanging the values of two numeric fields with different values have
\* different checksums.
C25_ChecksumOrderSensitive ==
    Guarded =>
      IF contract = "savings_goals"
      THEN \A x \in GoalSnapshots : \A goals \in SwappedGoals(x.goals) :
             compute_goals_checksum(x.version, x.next_id, goals)
               # compute_goals_checksum(x.version, x.next_id, x.goals)
      ELSE \A x \in SplitSnapshots : \A config \in SwappedConfigs(x.config) :
             compute_checksum(x.version, config)
               # compute_checksum(x.version, x.config)

\* ------------------------------------------------------------------ C26
\* The totals distributed: the ones the callers pass, the 1000 of the example,
\* and totals that leave a remainder or a share of 0.
DistributedTotals == TotalAmounts \cup {1, 7, 1000}

\* A token ledger on which the payer holds `amount` and nobody else anything.
Minted(payer, amount) == [a \in Accounts |-> IF a = payer THEN amount ELSE 0]

\* What a distribute_usdc that commits has done at storage st and ledger tok:
\* each of the four accounts holds the share calculate_split returns more, the
\* payer total_amount less, every other balance is as it was, the payer's
\* nonce is one up, the audit log has the entry of the success, and the call
\* returned true.
Distributed(st, tok, from, total_amount, out) ==
    LET amounts == Unwrap(calculate_split(get_split(st), total_amount))
    IN  /\ \A i \in 1..4 : out.tok[Recipients[i]] = tok[Recipients[i]] + amounts[i]
        /\ out.tok[from] = tok[from] - total_amount
        /\ \A a \in Accounts \ ({from} \cup {Recipients[i] : i \in 1..4}) :
             out.tok[a] = tok[a]
        /\ get_nonce(out.st, from) = get_nonce(st, from) + 1
        /\ \A p \in Principals \ {from} : get_nonce(out.st, p) = get_nonce(st, p)
        /\ out.st.AUDIT
             = append_audit_log(st.AUDIT, AuditEntry("distrib", from, now, TRUE))
        /\ out.st.CONFIG = st.CONFIG
        /\ out.st.SPLIT = st.SPLIT
        /\ out.ret = TRUE

\* C26: a distribute_usdc that succeeds transfers to the spending, savings,
\* bills and insurance accounts exactly the four shares calculate_split returns
\* under the current (or default) split, debits the payer exactly total_amount,
\* advances the payer's nonce by 1 and returns true; 1000 under the split
\* 50/30/15/5 gives 500/300/150/50 and leaves a payer who held 1000 with 0.
C26_DistributePaysTheShares ==
    contract = "remittance_split" =>
      \A from \in Principals, total_amount \in DistributedTotals :
        /\ \A tok \in {token, Minted(from, total_amount)} :
             LET out == distribute_usdc(split_store, tok, now, TRUE, from,
                                        get_nonce(split_store, from), total_amount)
             IN  Committed(out)
                   => Distributed(split_store, tok, from, total_amount, out)
        /\ get_split(split_store) = <<50, 30, 15, 5>>
             => LET out == distribute_usdc(split_store, Minted(from, 1000), now,
                                           TRUE, from, get_nonce(split_store, from),
                                           1000)
                IN  /\ Committed(out)
                    /\ <<out.tok[Recipients[1]], out.tok[Recipients[2]],
                         out.tok[Recipients[3]], out.tok[Recipients[4]]>>
                         = <<500, 300, 150, 50>>
                    /\ out.tok[from] = 0

\* alice's distribute_usdc of 999 has committed under the split 40/30/20/10 she
\* configured: the accounts hold 399, 299, 199 and the remainder 102, and she
\* holds 999 less than the 1500 she started with.
C26_Witness ==
    /\ contract = "remittance_split"
    /\ last.op = "distribute_usdc"
    /\ last.caller = "alice"
    /\ last.arg = 999
    /\ last.res = "ok"
    /\ last.ret = TRUE
    /\ get_split(split_store) = <<40, 30, 20, 10>>
    /\ <<token[Recipients[1]], token[Recipients[2]], token[Recipients[3]],
         token[Recipients[4]]>> = <<399, 299, 199, 102>>
    /\ token["alice"] = 501

\* ------------------------------------------------------------------ C27
\* What the payer has paid before the i-th transfer of the loop.
RECURSIVE PaidBefore(_, _)
PaidBefore(amounts, i) ==
    IF i <= 1 THEN 0
    ELSE PaidBefore(amounts, i - 1)
           + (IF amounts[i - 1] > 0 THEN amounts[i - 1] ELSE 0)

\* The i-th transfer of the loop is made and aborts: what the payer holds after
\* the transfers before it does not cover its amount.
AbortsAt(tok, from, amounts, i) ==
    /\ amounts[i] > 0
    /\ tok[from] - PaidBefore(amounts, i) < amounts[i]

\* C27: where one of the token transfers inside distribute_usdc aborts, the
\* call aborts: the ledger is as before the call, whatever transfers were made
\* before the one that aborted, the caller's nonce is not advanced and the
\* audit log has no new entry.
C27_FailedTransferAbortsTheCall ==
    contract = "remittance_split" =>
      \A from \in Principals, total_amount \in DistributedTotals \ {0} :
        LET amounts == Unwrap(calculate_split(get_split(split_store), total_amount))
            out == distribute_usdc(split_store, token, now, TRUE, from,
                                   get_nonce(split_store, from), total_amount)
        IN  (\E i \in 1..4 : AbortsAt(token, from, amounts, i))
              => /\ out.panicked
                 /\ out.tok = token
                 /\ get_nonce(out.st, from) = get_nonce(split_store, from)
                 /\ out.st.AUDIT = split_store.AUDIT
                 /\ HostCommit(split_store, out) = split_store

\* alice holds the 501 her distribution of 999 has left her; of a second
\* distribution of 999 the transfer of the spending share goes through on her
\* ledger, the transfer of the savings share aborts, and the call aborts.
C27_Witness ==
    /\ contract = "remittance_split"
    /\ last.op = "distribute_usdc"
    /\ last.res = "ok"
    /\ token["alice"] = 501
    /\ LET amounts == Unwrap(calculate_split(get_split(split_store), 999))
       IN  /\ IsSome(token_transfer(token, "alice", Recipients[1], amounts[1]))
           /\ ~AbortsAt(token, "alice", amounts, 1)
           /\ AbortsAt(token, "alice", amounts, 2)
    /\ distribute_usdc(split_store, token, now, TRUE, "alice",
                       get_nonce(split_store, "alice"), 999).res = "transfer failed"

\* ------------------------------------------------------------------ C28
\* The initialize_split calls that have committed so far.
Initializations ==
    {i \in DOMAIN audit_hist :
       audit_hist[i].operation = "init" /\ audit_hist[i].success}

\* Every initialize_split, by any principal, fails and leaves the configuration,
\* its owner included, and the rest of the storage as they are.
InitializeRefused ==
    \A c \in Principals, auth \in BOOLEAN, overflow_checks \in BOOLEAN :
    \A n \in NonceChoices(split_store, c), t \in PercentTuples \cup WidePercents :
      LET out == initialize_split_built(overflow_checks, split_store, now, auth, c, n, t)
      IN  /\ Failed(out)
          /\ out.st.CONFIG = split_store.CONFIG
          /\ out.st.SPLIT = split_store.SPLIT
          /\ HostCommit(split_store, out) = split_store

\* Every update_split fails and stores nothing.
UpdateRefused ==
    \A c \in Principals, auth \in BOOLEAN, overflow_checks \in BOOLEAN :
    \A n \in NonceChoices(split_store, c), t \in PercentTuples \cup WidePercents :
      LET out == update_split_built(overflow_checks, split_store, now, auth, c, n, t)
      IN  /\ Failed(out)
          /\ out.st = split_store
          /\ HostCommit(split_store, out) = split_store

\* C28: initialize_split succeeds at most once per contract instance: once a
\* configuration is stored, every later initialize_split by any principal
\* fails and leaves the configuration and its owner unchanged; update_split
\* fails while no configuration is stored.
C28_InitializeOnce ==
    contract = "remittance_split" =>
      /\ Cardinality(Initializations) <= 1
      /\ IsSome(split_store.CONFIG) => InitializeRefused
      /\ ~IsSome(split_store.CONFIG) => UpdateRefused

\* alice's initialize_split has committed; bob, authorized and with the nonce
\* expected of him, is refused a second one because the split is initialized,
\* and alice is refused hers too.
C28_Witness ==
    /\ contract = "remittance_split"
    /\ last.op = "initialize_split"
    /\ last.caller = "alice"
    /\ last.res = "ok"
    /\ Cardinality(Initializations) = 1
    /\ Unwrap(split_store.CONFIG).owner = "alice"
    /\ initialize_split(split_store, now, TRUE, "bob", get_nonce(split_store, "bob"),
                        <<40, 30, 20, 10>>).res = "Split already initialized"
    /\ initialize_split(split_store, now, TRUE, "alice",
                        get_nonce(split_store, "alice"),
                        <<40, 30, 20, 10>>).res = "Split already initialized"

\* ------------------------------------------------------------------ C29
\* Amounts that are not positive, and positive ones around the balances.
NotPositive == {-60, -1, 0}
Positive == {1, 40, 41, 60, 61, 100}

\* create_goal turns down a target_amount that is not positive, add_to_goal and
\* withdraw_from_goal an amount that is not positive, and withdraw_from_goal an
\* amount above the balance, whoever calls and whatever the goal.
AmountsValidated(st) ==
    \A c \in Principals, auth \in BOOLEAN :
      /\ \A target_amount \in NotPositive :
           Failed(create_goal(st, now, auth, c, "school", target_amount, 0))
      /\ \A id \in GoalIds(st) :
           /\ \A amount \in NotPositive :
                /\ Failed(add_to_goal(st, now, auth, c, id, amount))
                /\ Failed(withdraw_from_goal(st, now, auth, c, id, amount))
           /\ \A amount \in Positive :
                (MapHas(st.GOALS, id) /\ amount > st.GOALS[id].current_amount)
                  => Failed(withdraw_from_goal(st, now, auth, c, id, amount))

\* C29: in every state reached through create_goal, add_to_goal,
\* withdraw_from_goal, lock_goal and unlock_goal every goal has a positive
\* target_amount and a current_amount that is not negative, and the three
\* operations reject the amounts that would break this.
C29_GoalAmountsInRange ==
    /\ \A id \in DOMAIN goals_store.GOALS :
         /\ goals_store.GOALS[id].target_amount > 0
         /\ goals_store.GOALS[id].current_amount >= 0
    /\ AmountsValidated(goals_store)

\* alice has withdrawn all of the 40 she had added to her goal of target 100:
\* the balance is 0, and a withdrawal of 1 more is turned down for insufficient
\* balance.
C29_Witness ==
    /\ last.op = "withdraw_from_goal"
    /\ last.caller = "alice"
    /\ last.arg = <<1, 40>>
    /\ last.res = "ok"
    /\ goals_store.GOALS[1].target_amount = 100
    /\ goals_store.GOALS[1].current_amount = 0
    /\ withdraw_from_goal(goals_store, now, TRUE, "alice", 1, 1).res
         = "Insufficient balance"

\* ------------------------------------------------------------------ C30
\* The call returned `balance` and stored it as the current_amount of goal id
\* of st, changing no other field of that goal, no other goal, and not NEXT_ID.
BalanceSetTo(st, out, id, balance) ==
    /\ out.ret = balance
    /\ out.st.GOALS[id] = [st.GOALS[id] EXCEPT !.current_amount = balance]
    /\ DOMAIN out.st.GOALS = DOMAIN st.GOALS
    /\ \A other \in (DOMAIN st.GOALS) \ {id} : out.st.GOALS[other] = st.GOALS[other]
    /\ out.st.NEXT_ID = st.NEXT_ID
    /\ HostCommit(st, out) = out.st

\* C30: an add_to_goal that succeeds returns and stores the old current_amount
\* plus the amount, a withdraw_from_goal that succeeds the old current_amount
\* minus the amount; neither changes any other field of the goal, any other
\* goal, or NEXT_ID.
C30_BalanceMovesByTheAmount ==
    \A c \in Principals, id \in DOMAIN goals_store.GOALS :
    \A amount \in Positive \cup NotPositive :
      LET old == goals_store.GOALS[id].current_amount
          added == add_to_goal(goals_store, now, TRUE, c, id, amount)
          withdrawn == withdraw_from_goal(goals_store, now, TRUE, c, id, amount)
      IN  /\ Committed(added) => BalanceSetTo(goals_store, added, id, old + amount)
          /\ Committed(withdrawn)
               => BalanceSetTo(goals_store, withdrawn, id, old - amount)

\* alice has created a goal of target 100, unlocked it, added 60 and withdrawn
\* 40: the call returned 20, the goal holds 20, its target is 100, it is
\* unlocked, and NEXT_ID is the 1 of its creation; a further deposit of 60 would
\* return 80.
C30_Witness ==
    /\ last.op = "withdraw_from_goal"
    /\ last.caller = "alice"
    /\ last.arg = <<1, 40>>
    /\ last.res = "ok"
    /\ last.ret = 20
    /\ goals_store.GOALS[1]
         = SavingsGoal(1, "alice", "school", 100, 20, 0, FALSE)
    /\ goals_store.NEXT_ID = 1
    /\ add_to_goal(goals_store, now, TRUE, "alice", 1, 60).ret = 80

\* ------------------------------------------------------------------ C31
\* list holds, in ascending id order, exactly the goals get_goal returns that
\* owner owns.
ListsGoalsOf(st, owner, list) ==
    /\ \A i \in DOMAIN list :
         /\ get_goal(st, list[i].id) = Some(list[i])
         /\ list[i].owner = owner
    /\ \A i \in DOMAIN list : \A j \in DOMAIN list : i < j => list[i].id < list[j].id
    /\ \A id \in LookupIds :
         (IsSome(get_goal(st, id)) /\ Unwrap(get_goal(st, id)).owner = owner)
           => \E i \in DOMAIN list : list[i] = Unwrap(get_goal(st, id))

\* C31: get_all_goals(owner) returns, in ascending id order, exactly the goals
\* g for which get_goal(g.id) returns g and g.owner = owner, in every reachable
\* state, also after import_snapshot.
C31_GetAllGoalsListsEveryGoal ==
    contract = "savings_goals" =>
      \A owner \in Principals :
        ListsGoalsOf(goals_store, owner, get_all_goals(goals_store, owner))

\* ------------------------------------------------------------------ C32
\* The ids of the bills of a list.
BillIds(list) == {list[i].id : i \in DOMAIN list}

\* pay_bill by the owner on the unpaid bill id sets paid and returns true; the
\* bill leaves the owner's unpaid bills, and the owner's unpaid total goes down
\* by its amount (and up by the amount of the successor of a recurring bill).
PaysUnpaid(st, id) ==
    LET bill == st.BILLS[id]
        out == pay_bill(st, TRUE, bill.owner, id)
    IN  /\ Committed(out)
        /\ out.ret = TRUE
        /\ out.st.BILLS[id] = [bill EXCEPT !.paid = TRUE]
        /\ id \in BillIds(get_unpaid_bills(st, bill.owner))
        /\ id \notin BillIds(get_unpaid_bills(out.st, bill.owner))
        /\ get_total_unpaid(out.st, bill.owner)
             = get_total_unpaid(st, bill.owner) - bill.amount
                 + (IF bill.recurring THEN bill.amount ELSE 0)

\* Every pay_bill on the paid bill id fails and writes nothing, no create_bill
\* and no pay_bill of another bill makes it unpaid again, and it is in nobody's
\* unpaid bills.
StaysPaid(st, id) ==
    /\ \A c \in Principals, auth \in BOOLEAN, overflow_checks \in BOOLEAN :
         LET out == pay_bill_built(overflow_checks, st, auth, c, id)
         IN  Failed(out) /\ out.st = st /\ HostCommit(st, out) = st
    /\ \A c \in Principals, auth \in BOOLEAN, other \in 1..(st.NEXT_ID + 1) :
         pay_bill(st, auth, c, other).st.BILLS[id].paid
    /\ \A c \in Principals, auth \in BOOLEAN, amount \in BillAmounts :
       \A recurring \in BOOLEAN, frequency_days \in FrequencyDays :
         create_bill(st, auth, c, "rent", amount, 0, recurring,
                     frequency_days).st.BILLS[id].paid
    /\ \A owner \in Principals : id \notin BillIds(get_unpaid_bills(st, owner))

\* C32: a bill is paid at most once: pay_bill by the owner on an unpaid bill
\* sets paid = true and returns true, pay_bill on a paid bill fails, no
\* operation turns a paid bill back to unpaid, and a paid bill is not in
\* get_unpaid_bills and does not count toward get_total_unpaid.
C32_BillPaidAtMostOnce ==
    contract = "bill_payments" =>
      \A id \in DOMAIN bills_store.BILLS :
        IF bills_store.BILLS[id].paid THEN StaysPaid(bills_store, id)
        ELSE PaysUnpaid(bills_store, id)

\* alice has paid her bill 1 of 75, which is not recurring: pay_bill returned
\* true, the bill is paid, her unpaid bills are empty and her unpaid total is 0;
\* a second pay_bill is turned down.
C32_Witness ==
    /\ contract = "bill_payments"
    /\ last.op = "pay_bill"
    /\ last.caller = "alice"
    /\ last.arg = <<1>>
    /\ last.ret = TRUE
    /\ bills_store.BILLS[1].paid
    /\ ~bills_store.BILLS[1].recurring
    /\ get_unpaid_bills(bills_store, "alice") = <<>>
    /\ get_total_unpaid(bills_store, "alice") = 0
    /\ pay_bill(bills_store, TRUE, "alice", 1).res = "Bill is already paid"

\* ------------------------------------------------------------------ C33
\* paid is the storage a pay_bill of bill id left of st: a recurring bill has
\* exactly one successor, under the id NEXT_ID + 1, unpaid, recurring, of the
\* same owner, name, amount and frequency, due frequency_days * 86400 seconds
\* after it; a bill that is not recurring has none and NEXT_ID is unchanged.
SuccessorCreated(st, id, paid) ==
    LET bill == st.BILLS[id]
    IN  IF bill.recurring
        THEN /\ paid.NEXT_ID = st.NEXT_ID + 1
             /\ DOMAIN paid.BILLS = (DOMAIN st.BILLS) \cup {st.NEXT_ID + 1}
             /\ paid.BILLS[st.NEXT_ID + 1]
                  = Bill(st.NEXT_ID + 1, bill.owner, bill.name, bill.amount,
                         bill.due_date + bill.frequency_days * 86400, TRUE,
                         bill.frequency_days, FALSE)
        ELSE /\ paid.NEXT_ID = st.NEXT_ID
             /\ DOMAIN paid.BILLS = DOMAIN st.BILLS

\* C33: paying a recurring bill creates exactly one successor bill with the id
\* NEXT_ID + 1, the same owner, name, amount and frequency_days, recurring =
\* true, paid = false and due_date = old due_date + frequency_days * 86400;
\* paying a bill that is not recurring creates no bill and leaves NEXT_ID
\* unchanged.
C33_RecurringBillHasOneSuccessor ==
    contract = "bill_payments" =>
      \A overflow_checks \in BOOLEAN, c \in Principals, due_date \in DueDates :
      \A recurring \in BOOLEAN, frequency_days \in FrequencyDays :
        LET made == create_bill(bills_store, TRUE, c, "rent", 75, due_date,
                                recurring, frequency_days)
            out == pay_bill_built(overflow_checks, made.st, TRUE, c, made.ret)
        IN  (Committed(made) /\ Committed(out))
              => SuccessorCreated(made.st, made.ret, out.st)

\* ------------------------------------------------------------------ C34
\* The ids of the policies of a list.
PolicyIds(list) == {list[i].id : i \in DOMAIN list}

\* The ledger timestamps of the model.
Timestamps == 0..MaxTime

\* The policy a create_policy that commits stores is active.
CreatedActive(st) ==
    \A c \in Principals, monthly_premium \in Premiums, coverage_amount \in Premiums :
      LET out == create_policy(st, now, TRUE, c, "health", "health",
                               monthly_premium, coverage_amount)
      IN  Committed(out) => out.st.POLICIES[out.ret].active

\* deactivate_policy by the owner of the active policy id commits, changes
\* only its active flag, and takes it out of the owner's active policies and
\* its premium out of the owner's total.
Deactivates(st, id) ==
    LET policy == st.POLICIES[id]
        out == deactivate_policy(st, TRUE, policy.owner, id)
    IN  /\ Committed(out)
        /\ out.st.POLICIES[id] = [policy EXCEPT !.active = FALSE]
        /\ id \in PolicyIds(get_active_policies(st, policy.owner))
        /\ id \notin PolicyIds(get_active_policies(out.st, policy.owner))
        /\ get_total_monthly_premium(out.st, policy.owner)
             = get_total_monthly_premium(st, policy.owner) - policy.monthly_premium

\* The inactive policy id stays as it is: every pay_premium on it fails and
\* writes nothing, at every ledger time; no create_policy, no pay_premium and
\* no deactivate_policy makes it active; it is in nobody's active policies.
StaysInactive(st, id) ==
    /\ \A c \in Principals, auth \in BOOLEAN, ts \in Timestamps :
         LET out == pay_premium(st, ts, auth, c, id)
         IN  /\ Failed(out)
             /\ out.st.POLICIES[id].next_payment_date
                  = st.POLICIES[id].next_payment_date
             /\ HostCommit(st, out) = st
    /\ \A c \in Principals, auth \in BOOLEAN, other \in 1..(st.NEXT_ID + 1) :
         /\ ~pay_premium(st, now, auth, c, other).st.POLICIES[id].active
         /\ ~deactivate_policy(st, auth, c, other).st.POLICIES[id].active
    /\ \A c \in Principals, auth \in BOOLEAN, monthly_premium \in Premiums :
         ~create_policy(st, now, auth, c, "health", "health", monthly_premium,
                        20).st.POLICIES[id].active
    /\ \A owner \in Principals : id \notin PolicyIds(get_active_policies(st, owner))

\* C34: a policy is created active; after a deactivate_policy by its owner has
\* succeeded no operation makes it active again, every later pay_premium on it
\* fails without changing next_payment_date, and it is excluded from
\* get_active_policies and get_total_monthly_premium.
C34_DeactivationIsPermanent ==
    contract = "insurance" =>
      /\ CreatedActive(policy_store)
      /\ \A id \in DOMAIN policy_store.POLICIES :
           IF policy_store.POLICIES[id].active THEN Deactivates(policy_store, id)
           ELSE StaysInactive(policy_store, id)

\* alice has deactivated her policy 1: she has no active policies, her total
\* premium is 0, and her pay_premium on it is turned down.
C34_Witness ==
    /\ contract = "insurance"
    /\ last.op = "deactivate_policy"
    /\ last.caller = "alice"
    /\ last.arg = <<1>>
    /\ last.res = "ok"
    /\ ~policy_store.POLICIES[1].active
    /\ policy_store.POLICIES[1].monthly_premium = 20
    /\ get_active_policies(policy_store, "alice") = <<>>
    /\ get_total_monthly_premium(policy_store, "alice") = 0
    /\ pay_premium(policy_store, now, TRUE, "alice", 1).res = "Policy is not active"

\* ------------------------------------------------------------------ C35
\* C35: every entry of the audit log names a caller who authorized the call
\* that produced it: a call made without the authorization of the address it
\* names appends no audit entry and evicts none.
C35_AuditEntriesAreAuthorized ==
    Guarded =>
      \A i \in DOMAIN Calls : \A a \in Calls[i] :
        ~a.auth => After(a).AUDIT = a.st.AUDIT

\* ------------------------------------------------------------------ C36
\* The two stored copies of the split agree at storage st.
CopiesAgree(st) ==
    IF IsSome(get_config(st))
    THEN get_split(st) = Percents(Unwrap(get_config(st)))
    ELSE get_config(st) = None /\ get_split(st) = <<50, 30, 15, 5>>

\* C36: whenever a configuration is stored, the vector get_split returns is
\* the four percentages of the configuration get_config returns; when none is
\* stored get_config is None and get_split returns the default (50, 30, 15, 5).
\* It holds of the state and of what every initialize_split, update_split and
\* import_snapshot that commits leaves, in either build.
C36_SplitCopiesAgree ==
    contract = "remittance_split" =>
      /\ CopiesAgree(split_store)
      /\ \A c \in Principals, overflow_checks \in BOOLEAN :
           /\ \A t \in PercentTuples \cup WidePercents :
                /\ CopiesAgree(HostCommit(split_store,
                     initialize_split_built(overflow_checks, split_store, now, TRUE,
                                            c, get_nonce(split_store, c), t)))
                /\ CopiesAgree(HostCommit(split_store,
                     update_split_built(overflow_checks, split_store, now, TRUE, c,
                                        get_nonce(split_store, c), t)))
           /\ \A x \in SplitSnapshots :
                CopiesAgree(HostCommit(split_store,
                  split_import_snapshot_built(overflow_checks, split_store, now,
                                              TRUE, c, get_nonce(split_store, c), x)))

\* alice has initialized the split and then updated it to 40/30/20/10:
\* get_config and get_split both hold the new percentages.
C36_Witness ==
    /\ contract = "remittance_split"
    /\ last.op = "update_split"
    /\ last.caller = "alice"
    /\ last.res = "ok"
    /\ Percents(Unwrap(get_config(split_store))) = <<40, 30, 20, 10>>
    /\ get_split(split_store) = <<40, 30, 20, 10>>

\* ------------------------------------------------------------------ C37
\* The call of p that answered out at storage st has left the nonce of every
\* other principal as it was, in the storage the handler leaves and in the
\* storage the host keeps, and the nonce q has fetched is still the one
\* expected of q.
OthersNoncesKept(st, p, out) ==
    \A q \in Principals \ {p} :
      /\ get_nonce(out.st, q) = get_nonce(st, q)
      /\ get_nonce(HostCommit(st, out), q) = get_nonce(st, q)
      /\ require_nonce(HostCommit(st, out), q, get_nonce(st, q))

\* The goal operations, which take no nonce, called by p.
GoalCallsKeepNonces(st, p) ==
    /\ \A target_amount \in TargetAmounts :
         OthersNoncesKept(st, p, create_goal(st, now, TRUE, p, "school",
                                             target_amount, 0))
    /\ \A id \in GoalIds(st) :
         /\ \A amount \in DepositAmounts :
              /\ OthersNoncesKept(st, p, add_to_goal(st, now, TRUE, p, id, amount))
              /\ OthersNoncesKept(st, p, withdraw_from_goal(st, now, TRUE, p, id,
                                                            amount))
         /\ OthersNoncesKept(st, p, lock_goal(st, now, TRUE, p, id))
         /\ OthersNoncesKept(st, p, unlock_goal(st, now, TRUE, p, id))

\* C37: nonces are independent per principal: a call made by p, successful or
\* not, in any state the calls of all principals reach, never changes
\* get_nonce(q) for a q different from p, so p's calls cannot invalidate or
\* consume a nonce q has fetched.
C37_NoncesIndependent ==
    Guarded =>
      \A p \in Principals :
        /\ \A n \in NonceChoices(Store, p) : \A out \in NonceCalls(Store, p, n) :
             OthersNoncesKept(Store, p, out)
        /\ contract = "savings_goals" => GoalCallsKeepNonces(goals_store, p)

\* bob's distribute_usdc has just answered false after a call alice committed:
\* alice's nonce is 1 and bob's is 0, and the update_split alice commits now
\* takes hers to 2 and leaves bob's at 0.
C37_Witness ==
    /\ contract = "remittance_split"
    /\ last.op = "distribute_usdc"
    /\ last.caller = "bob"
    /\ last.res = "false"
    /\ get_nonce(split_store, "alice") = 1
    /\ get_nonce(split_store, "bob") = 0
    /\ LET out == update_split(split_store, now, TRUE, "alice", 1, <<40, 30, 20, 10>>)
       IN  /\ Committed(out)
           /\ get_nonce(out.st, "alice") = 2
           /\ get_nonce(out.st, "bob") = 0

\* ------------------------------------------------------------------ C38
\* Every withdrawal from goal id at storage st fails, whoever calls and
\* whatever the amount.
EveryWithdrawalFails(st, id) ==
    \A caller \in Principals, auth \in BOOLEAN,
       amount \in WithdrawAmounts \cup NotPositive :
      Failed(withdraw_from_goal(st, now, auth, caller, id, amount))

\* The goal a create_goal hands out starts empty and locked, and every
\* withdrawal from it fails.
CreatedEmptyAndLocked(st) ==
    \A owner \in Principals, target_amount \in Positive :
      LET out == create_goal(st, now, TRUE, owner, "school", target_amount, 0)
      IN  /\ Committed(out)
          /\ out.st.GOALS[out.ret].current_amount = 0
          /\ out.st.GOALS[out.ret].locked
          /\ out.st.GOALS[out.ret].owner = owner
          /\ EveryWithdrawalFails(HostCommit(st, out), out.ret)

\* The owner's lock_goal (locked = TRUE) or unlock_goal (locked = FALSE) of
\* goal id stores the flag and nothing else in the records and the nonces, and
\* a second call leaves what the first one left.
LockFlagAlone(st, id, locked) ==
    LET owner == st.GOALS[id].owner
        once == IF locked THEN lock_goal(st, now, TRUE, owner, id)
                ELSE unlock_goal(st, now, TRUE, owner, id)
        st1 == HostCommit(st, once)
        twice == IF locked THEN lock_goal(st1, now, TRUE, owner, id)
                 ELSE unlock_goal(st1, now, TRUE, owner, id)
    IN  /\ Committed(once)
        /\ Unaudited(st1) =
             Unaudited([st EXCEPT !.GOALS = [st.GOALS EXCEPT ![id].locked = locked]])
        /\ Committed(twice)
        /\ Unaudited(HostCommit(st1, twice)) = Unaudited(st1)

\* The step has opened goal id, locked before it, to a withdrawal.
Opened(id) ==
    /\ goals_store.GOALS[id].locked
    /\ \E caller \in Principals, amount \in WithdrawAmounts :
         Committed(withdraw_from_goal(goals_store', now', TRUE, caller, id, amount))

\* C38: a goal returned by create_goal starts with current_amount = 0 and
\* locked = true; every withdraw_from_goal on a locked goal fails, and a goal
\* that create_goal returned opens to a withdrawal only in a step in which its
\* owner's unlock_goal commits; lock_goal and unlock_goal change only the
\* locked flag of the addressed goal and are idempotent.
C38_LockedUntilOwnerUnlocks ==
    /\ [](contract = "savings_goals" =>
            /\ CreatedEmptyAndLocked(goals_store)
            /\ \A id \in DOMAIN goals_store.GOALS :
                 /\ goals_store.GOALS[id].locked
                      => EveryWithdrawalFails(goals_store, id)
                 /\ LockFlagAlone(goals_store, id, TRUE)
                 /\ LockFlagAlone(goals_store, id, FALSE))
    /\ [][contract = "savings_goals" =>
            \A id \in DOMAIN goals_store.GOALS :
              (\E i \in DOMAIN created : created[i] = id) /\ Opened(id)
                => /\ last'.op = "unlock_goal"
                   /\ last'.caller = goals_store.GOALS[id].owner
                   /\ last'.arg = <<id>>
                   /\ last'.res = "ok"]_vars

\* ------------------------------------------------------------------ C39
\* The four amounts are not negative and the insurance amount lies from the
\* floor of T * insurance_percent / 100 to that floor plus most.
RemainderWithin(split, T, amounts, most) ==
    /\ \A i \in 1..4 : amounts[i] >= 0
    /\ \E floor \in (amounts[4] - most)..amounts[4] :
         IsFloorOfHundredth(floor, T * split[4])

\* Every calculate_split on the stored split that sums to 100, computed for
\* each total and as the last call returned it, keeps the remainder within most.
RemainderBounded(most) ==
    PercentTotal(get_split(split_store)) = 100
      => /\ \A T \in CalcTotals :
              LET amounts == calculate_split(get_split(split_store), T)
              IN  (T >= 1 /\ IsSome(amounts))
                    => RemainderWithin(get_split(split_store), T, Unwrap(amounts), most)
         /\ last.op = "calculate_split"
              => RemainderWithin(get_split(split_store), last.arg, last.ret, most)

\* C39 (as stated): for every stored percentage tuple summing to 100 and every
\* T >= 1 for which calculate_split returns, all four shares are >= 0, and the
\* insurance share is at least floor(T * insurance_percent / 100) and exceeds
\* it by at most 2.
C39_RemainderExceedsByAtMostTwo == RemainderBounded(2)

\* C39 (amended): for every stored percentage tuple summing to 100 and every
\* T >= 1 for which calculate_split returns, all four shares are >= 0, and the
\* insurance share is at least floor(T * insurance_percent / 100) and exceeds
\* it by at most 3.
C39_RemainderExceedsByAtMostThree == RemainderBounded(3)

\* calculate_split(3) has returned (0, 0, 0, 3) on the stored split
\* (25, 25, 25, 25): the insurance amount is 3 above the floor of 3 * 25 / 100.
C39_Witness ==
    /\ split_store.SPLIT = Some(<<25, 25, 25, 25>>)
    /\ last.op = "calculate_split"
    /\ last.arg = 3
    /\ last.ret = <<0, 0, 0, 3>>
    /\ IsFloorOfHundredth(0, 3 * 25)

====
